---- MODULE Spec2Model ----
(***************************************************************************)
(* A model of terminal_parser: the escape-sequence parser (parser.go), the *)
(* dispatch handlers (handlers.go), the screen (terminal.go) and the       *)
(* renderer (render.go).                                                   *)
(*                                                                         *)
(* Bytes and runes are integers; Go strings are sequences of bytes.  A     *)
(* *styleAttributes is an address into `heap`.  A Go slice of nodes is the *)
(* pair (activeLine, spare): the cells below len, and the cells of the     *)
(* backing array between len and cap.                                      *)
(***************************************************************************)
EXTENDS Integers, Sequences, FiniteSets, TLC

VARIABLES
    scrollback,        \* screen.scrollback: the completed lines
    activeLine,        \* screen.activeLine[0:len]
    spare,             \* the backing array of activeLine, [len:cap]
    pos,               \* screen.pos
    activeAttributes,  \* screen.activeAttributes: an address
    heap,              \* address -> styleAttributes value
    upgraded,          \* RichTextTerminal.upgraded
    hookCalls,         \* number of calls of upgradeHook
    panicked,          \* "" or the message of the panic that ended the program
    state,             \* parser.state: the name of a state function, or "nil"
    partialParam,      \* parser.partialParam
    partialParams,     \* parser.partialParams
    partialIntermediates, \* parser.partialIntermediates
    buf,               \* parser.buf and the pty: the bytes written and not yet read
    closed,            \* the pty is closed: a read of an empty buf fails
    pc,                \* where Run is: "Run", "Continue", "State", "Done"
    lastState,         \* Continue's lastState
    err,               \* the error Continue returned to Run ("" is nil)
    cancelled,         \* ctx.Done() is closed
    dispatched,        \* the dispatch events delivered by the last step
    wire,              \* the parameter bytes read since the last CSI introducer
    nops,              \* the number of inputs so far: bytes written, or handler calls
    recording,         \* whether sent and history are kept
    sent,              \* the bytes the child has written
    history,           \* every dispatch event delivered so far
    opc,               \* where the parser thread is inside screen.newline
    linesCalls,        \* the number of calls of Lines() so far
    linesSeen,         \* what the last call of Lines() returned
    inCall             \* the running call of Continue: the bytes it has read,
                       \* and its calls of handlers other than handleCtrl

vars == <<scrollback, activeLine, spare, pos, activeAttributes, heap,
          upgraded, hookCalls, panicked, state, partialParam, partialParams,
          partialIntermediates, buf, closed, pc, lastState, err, cancelled,
          dispatched, wire, nops, recording, sent, history, opc, linesCalls,
          linesSeen, inCall>>

\* The program's state as one record, for the operators below.
M ==
    [scrollback |-> scrollback, activeLine |-> activeLine, spare |-> spare,
     pos |-> pos, activeAttributes |-> activeAttributes, heap |-> heap,
     upgraded |-> upgraded, hookCalls |-> hookCalls, panicked |-> panicked,
     state |-> state, partialParam |-> partialParam,
     partialParams |-> partialParams,
     partialIntermediates |-> partialIntermediates, buf |-> buf,
     closed |-> closed, pc |-> pc, lastState |-> lastState, err |-> err,
     cancelled |-> cancelled, dispatched |-> dispatched, wire |-> wire,
     nops |-> nops, recording |-> recording, sent |-> sent,
     history |-> history, opc |-> opc, linesCalls |-> linesCalls,
     linesSeen |-> linesSeen, inCall |-> inCall]

\* The next state is the record m.
Set(m) ==
    /\ scrollback' = m.scrollback
    /\ activeLine' = m.activeLine
    /\ spare' = m.spare
    /\ pos' = m.pos
    /\ activeAttributes' = m.activeAttributes
    /\ heap' = m.heap
    /\ upgraded' = m.upgraded
    /\ hookCalls' = m.hookCalls
    /\ panicked' = m.panicked
    /\ state' = m.state
    /\ partialParam' = m.partialParam
    /\ partialParams' = m.partialParams
    /\ partialIntermediates' = m.partialIntermediates
    /\ buf' = m.buf
    /\ closed' = m.closed
    /\ pc' = m.pc
    /\ lastState' = m.lastState
    /\ err' = m.err
    /\ cancelled' = m.cancelled
    /\ dispatched' = m.dispatched
    /\ wire' = m.wire
    /\ nops' = m.nops
    /\ recording' = m.recording
    /\ sent' = m.sent
    /\ history' = m.history
    /\ opc' = m.opc
    /\ linesCalls' = m.linesCalls
    /\ linesSeen' = m.linesSeen
    /\ inCall' = m.inCall

(***************************************************************************)
(* Bounds of the model.                                                    *)
(***************************************************************************)
MaxLineLen == 3
MaxScrollback == 1
MaxOps == 5
MaxStyleOps == 3
MaxRenderOps == 6
MaxRenderLen == 4

(***************************************************************************)
(* ascii/controls.go                                                       *)
(***************************************************************************)
BEL == 7
BS == 8
TAB == 9
LF == 10
VT == 11
FF == 12
CR == 13
CAN == 24
SUB == 26
ESC == 27
DEL == 127
NEL == 133

\* A character literal of the source as its byte.
Ch(c) ==
    CASE c = " " -> 32 [] c = "!" -> 33 [] c = "#" -> 35
      [] c = "0" -> 48 [] c = "1" -> 49 [] c = "2" -> 50 [] c = "3" -> 51
      [] c = "4" -> 52 [] c = "5" -> 53 [] c = "7" -> 55 [] c = "8" -> 56
      [] c = "9" -> 57 [] c = ":" -> 58 [] c = ";" -> 59 [] c = "?" -> 63
      [] c = "A" -> 65 [] c = "B" -> 66 [] c = "C" -> 67 [] c = "D" -> 68
      [] c = "E" -> 69 [] c = "G" -> 71 [] c = "H" -> 72 [] c = "J" -> 74
      [] c = "K" -> 75 [] c = "P" -> 80 [] c = "X" -> 88 [] c = "[" -> 91
      [] c = "\\" -> 92 [] c = "]" -> 93 [] c = "^" -> 94 [] c = "_" -> 95
      [] c = "c" -> 99 [] c = "h" -> 104 [] c = "l" -> 108 [] c = "m" -> 109
      [] c = "p" -> 112 [] c = "u" -> 117

(***************************************************************************)
(* terminal.go: styleAttributes, node, screen                              *)
(***************************************************************************)
NilAddr == -1

\* A nil Color: the default colour.
NilColor == [kind |-> "nil", v |-> <<>>]

\* styleAttributes{}
EmptyAttributes ==
    [styleFlags |-> {}, fg |-> NilColor, bg |-> NilColor,
     underline |-> NilColor, uri |-> <<>>]

Node(r, a) == [rune |-> r, attrs |-> a]

\* node{}: the zero value a fresh backing array holds.
ZeroNode == Node(0, NilAddr)

\* The cap append gives a full slice of nodes (the gc runtime doubles it).
GrowCap(cap) == IF cap = 0 THEN 1 ELSE 2 * cap

Zeros(n) == [i \in 1..n |-> ZeroNode]

\* a.Equals(a2) on two addresses.
Equals(h, a, a2) == a = a2 \/ h[a] = h[a2]

\* a.Empty()
Empty(h, a) == h[a] = EmptyAttributes

\* a.hasStyle(flags)
hasStyle(h, a, flags) == h[a].styleFlags \cap flags # {}

Panic(t, msg) == IF t.panicked = "" THEN [t EXCEPT !.panicked = msg] ELSE t

\* append(s.activeLine, n)
AppendNode(t, n) ==
    IF t.spare # <<>>
    THEN [t EXCEPT !.activeLine = Append(@, n), !.spare = Tail(@)]
    ELSE [t EXCEPT !.activeLine = Append(@, n),
                   !.spare = Zeros(GrowCap(Len(t.activeLine)) - Len(t.activeLine) - 1)]

print(t, r) ==
    LET n == Node(r, t.activeAttributes)
        u == IF t.pos < Len(t.activeLine)
             THEN [t EXCEPT !.activeLine[t.pos + 1] = n]
             ELSE AppendNode(t, n)
    IN  [u EXCEPT !.pos = @ + 1]

backspace(t) ==
    IF Len(t.activeLine) = 0 THEN t
    ELSE IF t.pos - 1 < 0 \/ t.pos - 1 > Len(t.activeLine) + Len(t.spare)
              \/ t.pos > Len(t.activeLine)
         THEN Panic(t, "slice bounds out of range")
         ELSE [t EXCEPT
                 !.activeLine = SubSeq(@, 1, t.pos - 1) \o SubSeq(@, t.pos + 1, Len(@)),
                 !.spare = <<t.activeLine[Len(t.activeLine)]>> \o @,
                 !.pos = @ - 1]

\* The three statements of newline, one by one.
newlineAppend(t) == [t EXCEPT !.scrollback = Append(@, t.activeLine)]

newlineNil(t) == [t EXCEPT !.activeLine = <<>>, !.spare = <<>>]

newlinePos(t) == [t EXCEPT !.pos = 0]

newline(t) == newlinePos(newlineNil(newlineAppend(t)))

RECURSIVE PrintSpaces(_, _)
\* the loop of setPos: n calls of print(' ')
PrintSpaces(t, n) == IF n <= 0 THEN t ELSE PrintSpaces(print(t, Ch(" ")), n - 1)

setPos(t, x, y) ==
    IF y < 0 THEN [t EXCEPT !.pos = 0]
    ELSE [PrintSpaces(t, y - Len(t.activeLine)) EXCEPT !.pos = y]

left(t, n) == setPos(t, 0, t.pos - n)

right(t, n) == setPos(t, 0, t.pos + n)

cr(t) == [t EXCEPT !.pos = 0]

RECURSIVE newlines(_, _)
newlines(t, n) == IF n <= 0 THEN t ELSE newlines(newline(t), n - 1)

\* clear as an erase that also drops the completed lines
clear_dropsScrollback(t) ==
    [t EXCEPT !.activeLine = <<>>, !.spare = <<>>, !.pos = 0, !.scrollback = <<>>]

clear(t) == [t EXCEPT !.activeLine = <<>>, !.spare = <<>>, !.pos = 0]

clearLeft(t) ==
    LET sp == Node(Ch(" "), t.activeAttributes)
        k == IF t.pos < Len(t.activeLine) THEN t.pos ELSE Len(t.activeLine)
        u == [t EXCEPT !.activeLine =
                 [i \in 1..Len(@) |-> IF i <= k THEN sp ELSE @[i]]]
    IN  IF t.pos > Len(t.activeLine) THEN Panic(u, "index out of range") ELSE u

clearRight(t) ==
    LET all == t.activeLine \o t.spare
    IN  IF t.pos < 0 \/ t.pos > Len(all)
        THEN Panic(t, "slice bounds out of range")
        ELSE [t EXCEPT !.activeLine = SubSeq(all, 1, t.pos),
                       !.spare = SubSeq(all, t.pos + 1, Len(all))]

\* The least address that holds no bundle: a new allocation.
FreshAddr(h) ==
    CHOOSE a \in 0..Cardinality(DOMAIN h) :
        a \notin DOMAIN h /\ \A b \in 0..(a - 1) : b \in DOMAIN h

\* copyAttributes that keeps the bundle in place
copyAttributes_inPlace(t) == t

copyAttributes(t) ==
    LET a == FreshAddr(t.heap)
    IN  [t EXCEPT !.heap = (a :> t.heap[t.activeAttributes]) @@ @,
                  !.activeAttributes = a]

resetAttributes(t) ==
    LET a == FreshAddr(t.heap)
    IN  [t EXCEPT !.heap = (a :> EmptyAttributes) @@ @, !.activeAttributes = a]

setStyle(t, flags) ==
    LET u == copyAttributes(t)
    IN  [u EXCEPT !.heap[u.activeAttributes].styleFlags = @ \cup flags]

\* resetStyle with &= flags in place of &= ^flags
resetStyle_missingComplement(t, flags) ==
    LET u == copyAttributes(t)
    IN  [u EXCEPT !.heap[u.activeAttributes].styleFlags = @ \cap flags]

resetStyle(t, flags) ==
    LET u == copyAttributes(t)
    IN  [u EXCEPT !.heap[u.activeAttributes].styleFlags = @ \ flags]

setFg(t, color) ==
    LET u == copyAttributes(t)
    IN  [u EXCEPT !.heap[u.activeAttributes].fg = color]

setBg(t, color) ==
    LET u == copyAttributes(t)
    IN  [u EXCEPT !.heap[u.activeAttributes].bg = color]

resetFg(t) == setFg(t, NilColor)

resetBg(t) == setBg(t, NilColor)

setURI(t, uri) ==
    LET u == copyAttributes(t)
    IN  [u EXCEPT !.heap[u.activeAttributes].uri = uri]

resetURI(t) ==
    LET u == copyAttributes(t)
    IN  [u EXCEPT !.heap[u.activeAttributes].uri = <<>>]

\* The addresses a line's nodes hold.
LineAddrs(line) == {line[i].attrs : i \in 1..Len(line)}

\* The addresses held by nodes of the scrollback and of the active line.
NodeAddrs(t) ==
    LineAddrs(t.activeLine)
    \cup UNION {LineAddrs(t.scrollback[i]) : i \in 1..Len(t.scrollback)}

\* The bundles the program can still reach; the others are garbage.
Reachable(t) ==
    ({t.activeAttributes} \cup NodeAddrs(t) \cup LineAddrs(t.spare)) \ {NilAddr}

\* Garbage collection: the bundles nothing points to are gone.
Collect(t) == [t EXCEPT !.heap = [a \in Reachable(t) \cap DOMAIN @ |-> @[a]]]

(***************************************************************************)
(* The Color values (their type is declared outside the files at hand).    *)
(***************************************************************************)
\* uint8(n)
Uint8(n) == n % 256

ANSIColor(n) == [kind |-> "ansi", v |-> <<Uint8(n)>>]

RGBColor(r, g, b) == [kind |-> "rgb", v |-> <<r, g, b>>]

(***************************************************************************)
(* render.go: a string literal of the source as its code points.  The key  *)
(* of a literal that holds a double quote (code point 34) is the literal   *)
(* without it.                                                             *)
(***************************************************************************)
Str(s) ==
    CASE s = "&amp;" -> <<38, 97, 109, 112, 59>>
      [] s = "&#39;" -> <<38, 35, 51, 57, 59>>
      [] s = "&lt;" -> <<38, 108, 116, 59>>
      [] s = "&gt;" -> <<38, 103, 116, 59>>
      [] s = "&#34;" -> <<38, 35, 51, 52, 59>>
      [] s = "<a href=" -> <<60, 97, 32, 104, 114, 101, 102, 61, 34>>
      [] s = ">" -> <<34, 62>>
      [] s = "<span style=" -> <<60, 115, 112, 97, 110, 32, 115, 116, 121, 108, 101, 61, 34>>
      [] s = "font-weight:bold;" -> <<102, 111, 110, 116, 45, 119, 101, 105, 103, 104, 116, 58, 98, 111, 108, 100, 59>>
      [] s = "font-style:italic;" -> <<102, 111, 110, 116, 45, 115, 116, 121, 108, 101, 58, 105, 116, 97, 108, 105, 99, 59>>
      [] s = "text-decoration:underline;" -> <<116, 101, 120, 116, 45, 100, 101, 99, 111, 114, 97, 116, 105, 111, 110, 58, 117, 110, 100, 101, 114, 108, 105, 110, 101, 59>>
      [] s = "visibility:hidden;" -> <<118, 105, 115, 105, 98, 105, 108, 105, 116, 121, 58, 104, 105, 100, 100, 101, 110, 59>>
      [] s = "color:" -> <<99, 111, 108, 111, 114, 58>>
      [] s = "background-color:" -> <<98, 97, 99, 107, 103, 114, 111, 117, 110, 100, 45, 99, 111, 108, 111, 114, 58>>
      [] s = "</span>" -> <<60, 47, 115, 112, 97, 110, 62>>
      [] s = "</a>" -> <<60, 47, 97, 62>>

(***************************************************************************)
(* render.go: a string is the sequence of its code points.                 *)
(***************************************************************************)
\* string(r): a rune that is no Unicode scalar value becomes U+FFFD.
StringOfRune(r) ==
    IF r < 0 \/ r > 1114111 \/ (r >= 55296 /\ r <= 57343) THEN <<65533>> ELSE <<r>>

RECURSIVE EscapeString(_)
\* html.EscapeString: & ' < > and the double quote become &amp; &#39; &lt; &gt; &#34;
EscapeString(str) ==
    IF str = <<>> THEN <<>>
    ELSE LET c == Head(str)
             e == CASE c = 38 -> Str("&amp;")
                    [] c = 39 -> Str("&#39;")
                    [] c = 60 -> Str("&lt;")
                    [] c = 62 -> Str("&gt;")
                    [] c = 34 -> Str("&#34;")
                    [] OTHER -> <<c>>
         IN  e \o EscapeString(Tail(str))

\* One hexadecimal digit, and a byte as two of them.
HexDigit(d) == IF d < 10 THEN 48 + d ELSE 87 + d

Hex2(n) == <<HexDigit(n \div 16), HexDigit(n % 16)>>

\* The levels of the 6x6x6 colour cube of the 256-colour palette.
CubeLevel(i) == IF i = 0 THEN 0 ELSE 55 + 40 * i

\* The red, green and blue of the indexed colour n.
Palette(n) ==
    IF n < 8
    THEN LET v == IF n = 7 THEN 192 ELSE 128
         IN  <<(n % 2) * v, ((n \div 2) % 2) * v, ((n \div 4) % 2) * v>>
    ELSE IF n < 16
    THEN IF n = 8 THEN <<128, 128, 128>>
         ELSE <<(n % 2) * 255, ((n \div 2) % 2) * 255, ((n \div 4) % 2) * 255>>
    ELSE IF n < 232
    THEN LET k == n - 16
         IN  <<CubeLevel(k \div 36), CubeLevel((k \div 6) % 6), CubeLevel(k % 6)>>
    ELSE LET g == 8 + 10 * (n - 232) IN <<g, g, g>>

\* Color.HTMLColorCode(): #RRGGBB
HTMLColorCode(c) ==
    LET rgb == IF c.kind = "ansi" THEN Palette(c.v[1]) ELSE c.v
    IN  <<35>> \o Hex2(rgb[1]) \o Hex2(rgb[2]) \o Hex2(rgb[3])

\* openTags of renderLine, on the bundle a
openTags(a) ==
    (IF a.uri # <<>> THEN Str("<a href=") \o EscapeString(a.uri) \o Str(">") ELSE <<>>)
    \o (IF a # EmptyAttributes
        THEN Str("<span style=")
             \o (IF "Bold" \in a.styleFlags THEN Str("font-weight:bold;") ELSE <<>>)
             \o (IF "Italic" \in a.styleFlags THEN Str("font-style:italic;") ELSE <<>>)
             \o (IF "Underline" \in a.styleFlags THEN Str("text-decoration:underline;") ELSE <<>>)
             \o (IF "Hidden" \in a.styleFlags THEN Str("visibility:hidden;") ELSE <<>>)
             \o (IF a.fg # NilColor
                 THEN Str("color:") \o HTMLColorCode(a.fg) \o <<59>> ELSE <<>>)
             \o (IF a.bg # NilColor
                 THEN Str("background-color:") \o HTMLColorCode(a.bg) \o <<59>> ELSE <<>>)
             \o Str(">")
        ELSE <<>>)

\* closeTags that closes a span whether or not one was opened
closeTags_unguarded(a) ==
    Str("</span>") \o (IF a.uri # <<>> THEN Str("</a>") ELSE <<>>)

\* closeTags of renderLine, on the bundle a
closeTags(a) ==
    (IF a # EmptyAttributes THEN Str("</span>") ELSE <<>>)
    \o (IF a.uri # <<>> THEN Str("</a>") ELSE <<>>)

RECURSIVE renderNodes(_, _, _, _)
\* The loop of renderLine over the nodes left, with prevAttr and raw so far.
\* A node of a nil *styleAttributes ends it in a nil dereference.
renderNodes(h, line, prevAttr, raw) ==
    IF line = <<>> THEN [ok |-> TRUE, html |-> raw \o closeTags(prevAttr)]
    ELSE LET n == Head(line)
         IN  IF n.attrs = NilAddr THEN [ok |-> FALSE, html |-> raw]
             ELSE LET a == h[n.attrs]
                      tags == IF a # prevAttr
                              THEN closeTags(prevAttr) \o openTags(a) ELSE <<>>
                  IN  renderNodes(h, Tail(line), a,
                                  raw \o tags \o EscapeString(StringOfRune(n.rune)))

renderLine(h, line) == renderNodes(h, line, EmptyAttributes, <<>>)

\* screen.Lines(), reading the screen as it is at this moment.
Lines(t) ==
    LET all == Append(t.scrollback, t.activeLine)
    IN  [i \in 1..Len(all) |-> renderLine(t.heap, all[i])]

(***************************************************************************)
(* handlers.go                                                             *)
(***************************************************************************)
IsDigit(c) == c >= 48 /\ c <= 57

RECURSIVE DecVal(_)
\* The number a string of decimal digits denotes.
DecVal(s) ==
    IF s = <<>> THEN 0
    ELSE 10 * DecVal(SubSeq(s, 1, Len(s) - 1)) + (s[Len(s)] - 48)

\* strconv.Atoi(s): [ok, val].  A string of at most 9 digits is in range; the
\* model builds no longer one.
Atoi(s) ==
    LET signed == s # <<>> /\ s[1] \in {43, 45}
        digits == IF signed THEN Tail(s) ELSE s
        ok == digits # <<>> /\ Len(digits) <= 9
              /\ \A i \in 1..Len(digits) : IsDigit(digits[i])
    IN  [ok |-> ok,
         val |-> IF ~ok THEN 0
                 ELSE IF signed /\ s[1] = 45 THEN 0 - DecVal(digits)
                 ELSE DecVal(digits)]

\* convertParamsWithDefault that reads an empty parameter as 0
convertParams_zeroDefault(params, defaultValue) ==
    [ok |-> \A i \in 1..Len(params) : params[i] = <<>> \/ Atoi(params[i]).ok,
     nParams |-> [i \in 1..Len(params) |->
                    IF params[i] = <<>> THEN 0 ELSE Atoi(params[i]).val]]

\* convertParamsWithDefault(defaultValue): nParams, and whether Atoi failed.
convertParamsWithDefault(params, defaultValue) ==
    [ok |-> \A i \in 1..Len(params) : params[i] = <<>> \/ Atoi(params[i]).ok,
     nParams |-> [i \in 1..Len(params) |->
                    IF params[i] = <<>> THEN defaultValue ELSE Atoi(params[i]).val]]

printRune(t, r) == print(t, r)

handleCtrl(t, c) ==
    CASE c = TAB -> printRune(t, TAB)
      [] c = BEL -> t
      [] c = BS -> left(t, 1)
      [] c = DEL -> backspace(t)
      [] c = CR -> cr(t)
      [] c \in {LF, FF, VT, NEL} -> newline(t)
      [] OTHER -> t

handleEsc(t, intermediates, final) ==
    IF intermediates = <<>> /\ final = Ch("c")
    THEN resetAttributes(newline(t))
    ELSE t

\* render.go: upgrade()
upgrade(t) == [t EXCEPT !.upgraded = TRUE, !.hookCalls = @ + 1]

RECURSIVE UpgradeLoop(_, _)
\* handlers.go: the loop over nParams of case 'h'
UpgradeLoop(t, nParams) ==
    IF nParams = <<>> THEN t
    ELSE UpgradeLoop(IF nParams[1] \in {47, 1049} THEN upgrade(t) ELSE t,
                     Tail(nParams))

\* handleColorSeq that skips the selector after a 38 or 48 it cannot use
handleColorSeq_skipsSelector(t, nParams, setColor) ==
    LET set(c) == IF setColor = "setFg" THEN setFg(t, c) ELSE setBg(t, c)
    IN  IF Len(nParams) >= 5 /\ nParams[2] = 2
        THEN [t |-> set(RGBColor(Uint8(nParams[3]), Uint8(nParams[4]),
                                 Uint8(nParams[5]))),
              handled |-> 5]
        ELSE IF Len(nParams) >= 3 /\ nParams[2] = 5
             THEN [t |-> set(ANSIColor(nParams[3])), handled |-> 3]
             ELSE [t |-> t, handled |-> IF Len(nParams) >= 2 THEN 2 ELSE 1]

\* handleColorSeq(setColor): [t, handled]; setColor is "setFg" or "setBg",
\* for t.screen.setFg or t.screen.setBg.
handleColorSeq(t, nParams, setColor) ==
    LET set(c) == IF setColor = "setFg" THEN setFg(t, c) ELSE setBg(t, c)
    IN  IF Len(nParams) >= 5 /\ nParams[2] = 2
        THEN [t |-> set(RGBColor(Uint8(nParams[3]), Uint8(nParams[4]),
                                 Uint8(nParams[5]))),
              handled |-> 5]
        ELSE IF Len(nParams) >= 3 /\ nParams[2] = 5
             THEN [t |-> set(ANSIColor(nParams[3])), handled |-> 3]
             ELSE [t |-> t, handled |-> 1]

\* The second switch of handleSGR.
SGRColorRange(t, p) ==
    CASE p >= 30 /\ p <= 37 -> setFg(t, ANSIColor(p - 30))
      [] p >= 40 /\ p <= 47 -> setBg(t, ANSIColor(p - 40))
      [] p >= 90 /\ p <= 97 -> setFg(t, ANSIColor(p - 90 + 8))
      [] p >= 100 /\ p <= 107 -> setBg(t, ANSIColor(p - 100 + 8))
      [] OTHER -> t

\* handleSGR(nParams): [t, handled]
handleSGR(t, nParams) ==
    LET p == nParams[1]
        one(u) == [t |-> SGRColorRange(u, p), handled |-> 1]
    IN  CASE p = 0 -> one(resetAttributes(t))
          [] p = 1 -> one(setStyle(t, {"Bold"}))
          [] p = 2 -> one(setStyle(t, {"Dim"}))
          [] p = 3 -> one(setStyle(t, {"Italic"}))
          [] p = 4 -> one(setStyle(t, {"Underline"}))
          [] p \in {5, 6} -> one(setStyle(t, {"Blink"}))
          [] p = 7 -> one(setStyle(t, {"Inverted"}))
          [] p = 8 -> one(setStyle(t, {"Hidden"}))
          [] p = 9 -> one(setStyle(t, {"Strikethrough"}))
          [] p = 21 -> one(resetStyle(t, {"Bold"}))
          [] p = 22 -> one(resetStyle(t, {"Dim"}))
          [] p = 23 -> one(resetStyle(t, {"Italic"}))
          [] p = 24 -> one(resetStyle(t, {"Underline"}))
          [] p = 25 -> one(resetStyle(t, {"Blink"}))
          [] p = 27 -> one(resetStyle(t, {"Inverted"}))
          [] p = 28 -> one(resetStyle(t, {"Hidden"}))
          [] p = 29 -> one(resetStyle(t, {"Strikethrough"}))
          [] p = 38 -> handleColorSeq(t, nParams, "setFg")
          [] p = 39 -> one(resetFg(t))
          [] p = 48 -> handleColorSeq(t, nParams, "setBg")
          [] p = 49 -> one(resetBg(t))
          [] p = 73 -> one(resetStyle(setStyle(t, {"Superscript"}), {"Subscript"}))
          [] p = 74 -> one(resetStyle(setStyle(t, {"Subscript"}), {"Superscript"}))
          [] p = 75 -> one(resetStyle(t, {"Superscript", "Subscript"}))
          [] OTHER -> one(t)

RECURSIVE SGRLoop(_, _)
\* handlers.go: the loop of case 'm'
SGRLoop(t, nParams) ==
    IF Len(nParams) = 0 THEN t
    ELSE LET r == handleSGR(t, nParams)
         IN  SGRLoop(r.t, SubSeq(nParams, r.handled + 1, Len(nParams)))

\* The switch on final of handleCSI under intermediates == "".
CSIPlain(t, params, intermediates, final) ==
    LET dflt == IF final \in {Ch("J"), Ch("K"), Ch("h"), Ch("m")} THEN 0 ELSE 1
        conv == convertParamsWithDefault(params, dflt)
        n == conv.nParams
    IN  IF final \notin {Ch("C"), Ch("D"), Ch("E"), Ch("J"), Ch("K"), Ch("G"),
                         Ch("H"), Ch("h"), Ch("m")}
        THEN t
        ELSE IF ~conv.ok THEN Panic(t, "CSI handler received non-integer param")
        ELSE CASE final = Ch("C") -> right(t, n[1])
               [] final = Ch("D") -> left(t, n[1])
               [] final = Ch("E") -> newlines(t, n[1])
               [] final \in {Ch("J"), Ch("K")} ->
                     CASE n[1] = 0 -> clearRight(t)
                       [] n[1] = 1 -> clearLeft(t)
                       [] n[1] = 2 -> clear(t)
                       [] OTHER -> t
               [] final = Ch("G") -> setPos(t, 0, n[1] - 1)
               [] final = Ch("H") ->
                     LET n2 == IF Len(params) = 1 THEN Append(n, 1) ELSE n
                     IN  setPos(t, n2[1] - 1, n2[2] - 1)
               [] final = Ch("h") ->
                     IF intermediates = <<Ch("?")>> THEN UpgradeLoop(t, n) ELSE t
               [] final = Ch("m") -> SGRLoop(t, n)

\* handleCSI that switches on final whatever the intermediates
handleCSI_anyIntermediates(t, params, intermediates, final) ==
    IF Len(params) = 0 THEN Panic(t, "CSI handler received nil param slice")
    ELSE LET u == CSIPlain(t, params, intermediates, final)
         IN  IF u.panicked = "" /\ intermediates = <<Ch("!")>> /\ final = Ch("p")
             THEN resetAttributes(u)
             ELSE u

handleCSI(t, params, intermediates, final) ==
    IF Len(params) = 0 THEN Panic(t, "CSI handler received nil param slice")
    ELSE LET u == IF intermediates = <<>>
                  THEN CSIPlain(t, params, intermediates, final)
                  ELSE t
         IN  IF u.panicked = "" /\ intermediates = <<Ch("!")>> /\ final = Ch("p")
             THEN resetAttributes(u)
             ELSE u

handleDSC(t, params, intermediates, final) == t

handleOSC(t, params) ==
    IF Len(params) = 0 THEN t
    ELSE IF params[1] = <<Ch("8")>>
         THEN IF Len(params) < 3 THEN resetURI(t) ELSE setURI(t, params[3])
         ELSE t

(***************************************************************************)
(* The dispatchHandler interface (parser.go): an event and its delivery.   *)
(***************************************************************************)
Ev(kind, params, intermediates, final) ==
    [kind |-> kind, params |-> params, intermediates |-> intermediates,
     final |-> final]

EvPrint(r) == Ev("printRune", <<>>, <<>>, r)
EvCtrl(c) == Ev("handleCtrl", <<>>, <<>>, c)
EvEsc(i, f) == Ev("handleEsc", <<>>, i, f)
EvCSI(p, i, f) == Ev("handleCSI", p, i, f)
EvOSC(p) == Ev("handleOSC", p, <<>>, 0)
EvDSC(p, i, f) == Ev("handleDSC", p, i, f)

\* The handler of RichTextTerminal the event calls.
Apply(t, e) ==
    CASE e.kind = "printRune" -> printRune(t, e.final)
      [] e.kind = "handleCtrl" -> handleCtrl(t, e.final)
      [] e.kind = "handleEsc" -> handleEsc(t, e.intermediates, e.final)
      [] e.kind = "handleCSI" -> handleCSI(t, e.params, e.intermediates, e.final)
      [] e.kind = "handleOSC" -> handleOSC(t, e.params)
      [] e.kind = "handleDSC" -> handleDSC(t, e.params, e.intermediates, e.final)

\* The parser calls a handler: the call is noted in dispatched.  A pass of the
\* parser makes one call at most, and changes only the parser after it; the
\* handler acts on the screen only: Handle runs it at the end of the pass.
Deliver(t, e) ==
    [t EXCEPT !.dispatched = Append(@, e),
              !.inCall.events = IF e.kind = "handleCtrl" THEN @ ELSE @ + 1]

RECURSIVE Handle(_, _)
\* The handlers of the calls es, in order; each call is recorded.
Handle(t, es) ==
    IF es = <<>> THEN t
    ELSE LET e == Head(es)
             u == [Collect(Apply(t, e)) EXCEPT
                      !.history = IF t.recording THEN Append(@, e) ELSE @]
         IN  Handle(u, Tail(es))

(***************************************************************************)
(* parser.go: the byte classes and the scratch collections                 *)
(***************************************************************************)
ctrlCode(c) == c <= 31 /\ ~(c = CAN \/ c = SUB \/ c = ESC)

terminatingCtrlCode(c) == c = CAN \/ c = SUB

graphicalCode(c) == c >= 32

\* c &^ 0x80
Low(c) == IF c >= 128 THEN c - 128 ELSE c

clearScratch(p) ==
    [p EXCEPT !.partialParams = <<>>, !.partialParam = <<>>,
              !.partialIntermediates = <<>>]

collectIntermediate(p, c) == [p EXCEPT !.partialIntermediates = Append(@, c)]

collectParam(p, c) ==
    IF c = Ch(";")
    THEN [p EXCEPT !.partialParams = Append(@, p.partialParam),
                   !.partialParam = <<>>]
    ELSE [p EXCEPT !.partialParam = Append(@, c)]

intermediates(p) == p.partialIntermediates

\* params that leaves out the parameter being read
params_withoutLast(p) == p.partialParams

params(p) == Append(p.partialParams, p.partialParam)

(***************************************************************************)
(* The reader p.buf (bufio.Reader over the pty) as the parser uses it.     *)
(***************************************************************************)
RuneError == 65533

\* unicode/utf8: the size a leading byte announces (1: ASCII or invalid).
RuneSize(b) ==
    CASE b >= 194 /\ b <= 223 -> 2
      [] b >= 224 /\ b <= 239 -> 3
      [] b >= 240 /\ b <= 244 -> 4
      [] OTHER -> 1

\* unicode/utf8: the range the second byte of a scalar must lie in.
AcceptLo(b) == CASE b = 224 -> 160 [] b = 240 -> 144 [] OTHER -> 128

AcceptHi(b) == CASE b = 237 -> 159 [] b = 244 -> 143 [] OTHER -> 191

IsCont(b) == b >= 128 /\ b <= 191

\* utf8.FullRune(p)
FullRune(p) ==
    /\ Len(p) > 0
    /\ \/ Len(p) >= RuneSize(p[1])
       \/ Len(p) > 1 /\ (p[2] < AcceptLo(p[1]) \/ AcceptHi(p[1]) < p[2])
       \/ Len(p) > 2 /\ ~IsCont(p[3])

\* utf8.DecodeRune(p) for a non-empty p: [rune, size]
DecodeRune(p) ==
    LET sz == RuneSize(p[1])
        bad == [rune |-> RuneError, size |-> 1]
    IN  IF p[1] < 128 THEN [rune |-> p[1], size |-> 1]
        ELSE IF sz = 1 \/ Len(p) < sz THEN bad
        ELSE IF p[2] < AcceptLo(p[1]) \/ AcceptHi(p[1]) < p[2] THEN bad
        ELSE IF sz = 2
             THEN [rune |-> (p[1] % 32) * 64 + (p[2] % 64), size |-> 2]
        ELSE IF ~IsCont(p[3]) THEN bad
        ELSE IF sz = 3
             THEN [rune |-> (p[1] % 16) * 4096 + (p[2] % 64) * 64 + (p[3] % 64),
                   size |-> 3]
        ELSE IF ~IsCont(p[4]) THEN bad
        ELSE [rune |-> (p[1] % 8) * 262144 + (p[2] % 64) * 4096
                       + (p[3] % 64) * 64 + (p[4] % 64),
              size |-> 4]

\* p.buf.ReadByte() returns: a byte has been written, or the pty is closed.
CanReadByte(m) == m.buf # <<>> \/ m.closed

\* a ReadRune that returns with the bytes of one read
CanReadRune_oneRead(m) == m.buf # <<>> \/ m.closed

\* p.buf.ReadRune() returns: it reads on until a full scalar or an error.
CanReadRune(m) == FullRune(m.buf) \/ m.closed

\* p.buf.ReadRune() on a non-empty buf: [rune, size]
ReadRune(m) == DecodeRune(m.buf)

(***************************************************************************)
(* parser.go: the state functions.  Each operator is one pass from a       *)
(* ReadByte of the function to its next ReadByte or its return, with the   *)
(* byte to read at the head of m.buf.                                      *)
(***************************************************************************)
\* ReadByte: the head of buf is consumed.
Consume(m) == [m EXCEPT !.buf = Tail(@), !.inCall.read = @ + 1]

\* return st, nil: Continue's loop reads on.
Return(m, st) == [m EXCEPT !.state = st, !.pc = "Continue"]

\* return st, parserPaused: Continue returns nil to Run.
ReturnPaused(m, st) == [m EXCEPT !.state = st, !.pc = "Run"]

\* the function loops: its next ReadByte
Loop(m) == [m EXCEPT !.pc = "State"]

\* return nil, err on a failed read
ReturnErr(m) == [m EXCEPT !.state = "nil", !.err = "EOF", !.pc = "Run"]

parseOutput(m) ==
    LET c == Head(m.buf)
    IN  CASE c = DEL -> ReturnPaused(Deliver(Consume(m), EvCtrl(c)), "parseOutput")
          [] c # DEL /\ graphicalCode(c) ->
                LET r == ReadRune(m)
                    u == [m EXCEPT !.buf = SubSeq(@, r.size + 1, Len(@)),
                                   !.inCall.read = @ + r.size]
                IN  Loop(Deliver(u, EvPrint(r.rune)))
          [] OTHER -> ReturnPaused(m, "parseOutput")

parseEscape(m) ==
    LET c == Head(m.buf)
        low == Low(c)
        u == Consume(m)
    IN  CASE c = DEL -> Return(u, "parseEscape")
          [] c >= 32 /\ c <= 47 ->
                Return(collectIntermediate(clearScratch(u), c),
                       "parseEscapeIntermediate")
          [] low = Ch("P") -> Return(u, "parseDCSEntry")
          [] low = Ch("[") -> Return([u EXCEPT !.wire = <<>>], "parseCSIEntry")
          [] low = Ch("]") -> Return(u, "parseOSCString")
          [] low \in {Ch("X"), Ch("^"), Ch("_")} -> Return(u, "parseIgnoreAll")
          [] low = Ch("\\") -> Return(u, "parseOutput")
          [] c >= 64 /\ c <= 95 /\ low \notin {80, 91, 93, 88, 94, 95, 92} ->
                ReturnPaused(Deliver(u, EvCtrl(c + 64)), "parseOutput")
          [] c >= 48 /\ c <= 126 /\ ~(c >= 64 /\ c <= 95) ->
                ReturnPaused(Deliver(u, EvEsc(<<>>, c)), "parseOutput")
          [] OTHER -> Return(m, "parseEscape")

parseEscapeIntermediate(m) ==
    LET c == Head(m.buf)
        u == Consume(m)
    IN  CASE c = DEL -> Return(u, "parseEscapeIntermediate")
          [] c >= 32 /\ c <= 47 ->
                Return(collectIntermediate(u, c), "parseEscapeIntermediate")
          [] c >= 48 /\ c <= 126 ->
                ReturnPaused(Deliver(u, EvEsc(intermediates(u), c)), "parseOutput")
          [] OTHER -> Return(m, "parseEscapeIntermediate")

\* parseOSCString that dispatches nothing on a terminating control code
parseOSCString_silentOnCan(m) ==
    LET c == Head(m.buf)
        u == Consume(m)
    IN  CASE c = BEL -> ReturnPaused(Deliver(u, EvOSC(params(u))), "parseOutput")
          [] c # BEL /\ ctrlCode(c) -> Loop(u)
          [] graphicalCode(c) -> Loop(collectParam(u, c))
          [] c = ESC -> ReturnPaused(Deliver(u, EvOSC(params(u))), "parseEscape")
          [] OTHER -> ReturnPaused(m, "parseOSCString")

parseOSCString(m) ==
    LET c == Head(m.buf)
        u == Consume(m)
    IN  CASE c = BEL -> ReturnPaused(Deliver(u, EvOSC(params(u))), "parseOutput")
          [] c # BEL /\ ctrlCode(c) -> Loop(u)
          [] graphicalCode(c) -> Loop(collectParam(u, c))
          [] c = ESC -> ReturnPaused(Deliver(u, EvOSC(params(u))), "parseEscape")
          [] OTHER -> ReturnPaused(Deliver(m, EvOSC(params(m))), "parseOSCString")

\* collectParam of a CSI parameter byte; the byte is noted in wire.
CollectCSIParam(p, c) == [collectParam(p, c) EXCEPT !.wire = Append(@, c)]

parseCSIEntry(m) ==
    LET c == Head(m.buf)
        u == Consume(m)
    IN  CASE c = DEL -> Return(u, "parseCSIEntry")
          [] c >= 32 /\ c <= 47 ->
                Return(collectIntermediate(u, c), "parseCSIIntermediate")
          [] IsDigit(c) \/ c = Ch(";") ->
                Return(CollectCSIParam(u, c), "parseCSIParam")
          [] c >= 60 /\ c <= 63 ->
                Return(collectIntermediate(u, c), "parseCSIParam")
          [] c = 58 -> Return(u, "parseCSIIgnore")
          [] c >= 64 /\ c <= 126 ->
                ReturnPaused(Deliver(u, EvCSI(<<<<>>>>, <<>>, c)), "parseOutput")
          [] OTHER -> Return(m, "parseCSIEntry")

\* parseCSIParam that collects the colon and the private markers as parameter
\* bytes
parseCSIParam_collectsColon(m) ==
    LET c == Head(m.buf)
        u == Consume(m)
    IN  CASE c = DEL -> Loop(u)
          [] c >= 32 /\ c <= 47 ->
                Return(collectIntermediate(u, c), "parseCSIIntermediate")
          [] c >= 48 /\ c <= 63 -> Loop(CollectCSIParam(u, c))
          [] c >= 64 /\ c <= 126 ->
                ReturnPaused(Deliver(u, EvCSI(params(u), intermediates(u), c)),
                             "parseOutput")
          [] OTHER -> Return(m, "parseCSIParam")

parseCSIParam(m) ==
    LET c == Head(m.buf)
        u == Consume(m)
    IN  CASE c = DEL -> Loop(u)
          [] c >= 32 /\ c <= 47 ->
                Return(collectIntermediate(u, c), "parseCSIIntermediate")
          [] IsDigit(c) \/ c = Ch(";") -> Loop(CollectCSIParam(u, c))
          [] c = 58 \/ (c >= 60 /\ c <= 63) -> Return(u, "parseCSIIgnore")
          [] c >= 64 /\ c <= 126 ->
                ReturnPaused(Deliver(u, EvCSI(params(u), intermediates(u), c)),
                             "parseOutput")
          [] OTHER -> Return(m, "parseCSIParam")

parseCSIIntermediate(m) ==
    LET c == Head(m.buf)
        u == Consume(m)
    IN  CASE c = DEL -> Loop(u)
          [] c >= 32 /\ c <= 47 -> Loop(collectIntermediate(u, c))
          [] c >= 48 /\ c <= 63 -> Return(u, "parseCSIIgnore")
          [] c >= 64 /\ c <= 126 ->
                ReturnPaused(Deliver(u, EvCSI(params(u), intermediates(u), c)),
                             "parseOutput")
          [] OTHER -> Return(m, "parseCSIIntermediate")

parseCSIIgnore(m) ==
    LET c == Head(m.buf)
        low == Low(c)
        u == Consume(m)
    IN  CASE low >= 32 /\ low <= 63 -> Loop(u)
          [] low = DEL -> Loop(u)
          [] low >= 64 /\ low <= 126 -> Return(u, "parseOutput")
          [] OTHER -> Return(m, "parseCSIIgnore")

parseDCSEntry(m) ==
    LET c == Head(m.buf)
        u == Consume(m)
    IN  CASE c = DEL -> Return(u, "parseDCSEntry")
          [] ctrlCode(c) -> Return(u, "parseDCSEntry")
          [] c >= 32 /\ c <= 47 ->
                Return(collectIntermediate(u, c), "parseDCSIntermediate")
          [] IsDigit(c) \/ c = Ch(";") ->
                Return(collectParam(u, c), "parseDCSParam")
          [] c >= 60 /\ c <= 63 ->
                Return(collectIntermediate(u, c), "parseDCSParam")
          [] c = 58 -> Return(u, "parseIgnoreAll")
          [] c >= 64 /\ c <= 126 -> Return(m, "parseDCSPassthrough")
          [] OTHER -> Return(m, "parseDCSEntry")

parseDCSIntermediate(m) ==
    LET c == Head(m.buf)
        u == Consume(m)
    IN  CASE c = DEL -> Loop(u)
          [] ctrlCode(c) -> Loop(u)
          [] c >= 32 /\ c <= 47 -> Loop(collectIntermediate(u, c))
          [] c >= 48 /\ c <= 63 -> Return(u, "parseIgnoreAll")
          [] c >= 64 /\ c <= 126 -> Return(m, "parseDCSPassthrough")
          [] OTHER -> Return(m, "parseEscapeIntermediate")

parseDCSParam(m) ==
    LET c == Head(m.buf)
        u == Consume(m)
    IN  CASE c = DEL -> Loop(u)
          [] ctrlCode(c) -> Loop(u)
          [] c >= 32 /\ c <= 47 ->
                Return(collectIntermediate(u, c), "parseDCSIntermediate")
          [] IsDigit(c) \/ c = Ch(";") -> Loop(collectParam(u, c))
          [] c = 58 \/ (c >= 60 /\ c <= 63) -> Return(u, "parseIgnoreAll")
          [] c >= 64 /\ c <= 126 -> Return(m, "parseDCSPassthrough")
          [] OTHER -> Return(m, "parseDCSParam")

parseDCSPassthrough(m) ==
    LET c == Head(m.buf)
        u == Consume(m)
    IN  Return(Deliver(u, EvDSC(params(u), intermediates(u), c)), "parseIgnoreAll")

parseIgnoreAll(m) ==
    LET c == Head(m.buf)
        u == Consume(m)
    IN  CASE ctrlCode(c) -> Loop(u)
          [] graphicalCode(c) -> Loop(u)
          [] OTHER -> Return(m, "parseIgnoreAll")

\* p.state(p): the state function that p.state names.
CallState(m) ==
    CASE m.state = "parseOutput" -> parseOutput(m)
      [] m.state = "parseEscape" -> parseEscape(m)
      [] m.state = "parseEscapeIntermediate" -> parseEscapeIntermediate(m)
      [] m.state = "parseOSCString" -> parseOSCString(m)
      [] m.state = "parseCSIEntry" -> parseCSIEntry(m)
      [] m.state = "parseCSIParam" -> parseCSIParam(m)
      [] m.state = "parseCSIIntermediate" -> parseCSIIntermediate(m)
      [] m.state = "parseCSIIgnore" -> parseCSIIgnore(m)
      [] m.state = "parseDCSEntry" -> parseDCSEntry(m)
      [] m.state = "parseDCSIntermediate" -> parseDCSIntermediate(m)
      [] m.state = "parseDCSParam" -> parseDCSParam(m)
      [] m.state = "parseDCSPassthrough" -> parseDCSPassthrough(m)
      [] m.state = "parseIgnoreAll" -> parseIgnoreAll(m)

\* every state function starting with p.clear()
EnterState_clearsAlways(m) ==
    [clearScratch(m) EXCEPT !.lastState = m.state, !.pc = "State"]

\* The statements of a state function before its first ReadByte.
EnterState(m) ==
    LET u == IF m.state \in {"parseOSCString", "parseCSIEntry", "parseDCSEntry"}
             THEN clearScratch(m) ELSE m
    IN  [u EXCEPT !.lastState = m.state, !.pc = "State"]

\* Continue without the test for a state entered twice
ContinueHead_noSameStateTest(m) ==
    IF m.buf = <<>> THEN [m EXCEPT !.err = "EOF", !.pc = "Run"]
    ELSE LET c == Head(m.buf)
             u == Consume(m)
         IN  CASE ctrlCode(c) -> EnterState(Deliver(u, EvCtrl(c)))
               [] terminatingCtrlCode(c) ->
                     [Deliver(u, EvCtrl(c)) EXCEPT !.pc = "Run"]
               [] c = ESC -> EnterState([u EXCEPT !.state = "parseEscape"])
               [] c >= 128 /\ c < 192 -> EnterState(u)
               [] OTHER -> EnterState(m)

\* One pass of Continue's loop from its ReadByte to the call of p.state.
ContinueHead(m) ==
    IF m.buf = <<>> THEN [m EXCEPT !.err = "EOF", !.pc = "Run"]
    ELSE LET c == Head(m.buf)
             u == Consume(m)
         IN  CASE ctrlCode(c) -> EnterState(Deliver(u, EvCtrl(c)))
               [] terminatingCtrlCode(c) ->
                     [Deliver(u, EvCtrl(c)) EXCEPT !.pc = "Run"]
               [] c = ESC -> EnterState([u EXCEPT !.state = "parseEscape"])
               [] c >= 128 /\ c < 192 -> EnterState(u)
               [] OTHER ->
                     IF m.state = m.lastState
                     THEN [u EXCEPT !.err = "undefined transition", !.pc = "Run"]
                     ELSE EnterState(m)

\* One pass of a state function: its ReadByte fails, or CallState.
StateRead(m) == IF m.buf = <<>> THEN ReturnErr(m) ELSE CallState(m)

\* terminal.go: one pass of Run's loop up to the call of Continue.
RunHead(m) ==
    IF m.err # "" \/ m.upgraded \/ m.cancelled
    THEN [m EXCEPT !.pc = "Done"]
    ELSE [m EXCEPT !.lastState = "nil", !.pc = "Continue",
                   !.inCall = [read |-> 0, events |-> 0]]

\* The read the parser waits in can return.
CanStep(m) ==
    CASE m.pc = "Run" -> TRUE
      [] m.pc = "Continue" -> CanReadByte(m)
      [] m.pc = "State" ->
            IF m.state = "parseOutput" /\ m.buf # <<>> /\ Head(m.buf) # DEL
               /\ graphicalCode(Head(m.buf))
            THEN CanReadRune(m)
            ELSE CanReadByte(m)
      [] OTHER -> FALSE

\* The parser thread's next pass.
Pass(m) ==
    CASE m.pc = "Run" -> RunHead(m)
      [] m.pc = "Continue" -> ContinueHead(m)
      [] m.pc = "State" -> StateRead(m)

\* The handlers of the calls the pass has made.
HandleCalls(m) == Handle(m, m.dispatched)

\* The pass, with the handler it calls.
Step(m) == HandleCalls(Pass(m))

(***************************************************************************)
(* The initial state: New() and newScreen(), before Run.                   *)
(***************************************************************************)
InitWith(rec) ==
    /\ scrollback = <<>>
    /\ activeLine = <<>>
    /\ spare = <<>>
    /\ pos = 0
    /\ activeAttributes = 0
    /\ heap = (0 :> EmptyAttributes)
    /\ upgraded = FALSE
    /\ hookCalls = 0
    /\ panicked = ""
    /\ state = "parseOutput"
    /\ partialParam = <<>>
    /\ partialParams = <<>>
    /\ partialIntermediates = <<>>
    /\ buf = <<>>
    /\ closed = FALSE
    /\ pc = "Run"
    /\ lastState = "nil"
    /\ err = ""
    /\ cancelled = FALSE
    /\ dispatched = <<>>
    /\ wire = <<>>
    /\ nops = 0
    /\ recording = rec
    /\ sent = <<>>
    /\ history = <<>>
    /\ opc = "idle"
    /\ linesCalls = 0
    /\ linesSeen = <<>>
    /\ inCall = [read |-> 0, events |-> 0]

Init == InitWith(FALSE)

\* The model follows the screen no further than these sizes.
InBounds(m) ==
    /\ Len(m.activeLine) <= MaxLineLen
    /\ Len(m.scrollback) <= MaxScrollback
    /\ \A i \in 1..Len(m.scrollback) : Len(m.scrollback[i]) <= MaxLineLen

\* The step to the state m, when the model follows the screen that far.
SetInBounds(m) == InBounds(m) /\ Set(m)

(***************************************************************************)
(* Spec: the dispatch handlers of RichTextTerminal, called with the events *)
(* the parser can deliver.                                                 *)
(***************************************************************************)
PrintEvents == {EvPrint(65)}

CtrlEvents == {EvCtrl(c) : c \in {BS, DEL, CR, LF, NEL}}

EscEvents == {EvEsc(<<>>, 99)}

CsiEvents ==
    {EvCSI(p, <<>>, 67) : p \in {<<<<>>>>, <<<<51>>>>}}
    \cup {EvCSI(p, <<>>, 68) : p \in {<<<<>>>>, <<<<50>>>>}}
    \cup {EvCSI(p, <<>>, 69) : p \in {<<<<>>>>, <<<<50>>>>}}
    \cup {EvCSI(p, <<>>, 71) : p \in {<<<<>>>>, <<<<51>>>>}}
    \cup {EvCSI(p, <<>>, 72) : p \in {<<<<>>>>, <<<<>>, <<50>>>>, <<<<51>>, <<>>>>}}
    \cup {EvCSI(p, <<>>, 75) : p \in {<<<<>>>>, <<<<49>>>>, <<<<50>>>>, <<<<51>>>>}}
    \cup {EvCSI(<<<<>>>>, <<>>, 74), EvCSI(<<<<>>>>, <<>>, 109),
          EvCSI(<<<<49>>>>, <<>>, 109)}

\* A handler is called with event e and runs to its end.
Dispatch(e) ==
    /\ panicked = ""
    /\ opc = "idle"
    /\ nops < MaxOps
    /\ SetInBounds(Handle([M EXCEPT !.dispatched = <<e>>, !.nops = @ + 1], <<e>>))

DispatchPrint == \E e \in PrintEvents : Dispatch(e)
DispatchCtrl == \E e \in CtrlEvents : Dispatch(e)
DispatchEsc == \E e \in EscEvents : Dispatch(e)
DispatchCSI == \E e \in CsiEvents : Dispatch(e)

Next ==
    \/ DispatchPrint
    \/ DispatchCtrl
    \/ DispatchEsc
    \/ DispatchCSI

Spec == Init /\ [][Next]_vars

(***************************************************************************)
(* SpecAttr: the handlers that write nodes and the handlers that change    *)
(* the active attributes.                                                  *)
(***************************************************************************)
\* ESC [ m, ESC [ 1 m, ESC [ 21 m, ESC [ 31 m, ESC [ 1 ; 31 m
SgrEvents ==
    {EvCSI(p, <<>>, 109) :
        p \in {<<<<>>>>, <<<<49>>>>, <<<<50, 49>>>>, <<<<51, 49>>>>,
               <<<<49>>, <<51, 49>>>>}}

\* OSC 8 ; ; u ST and OSC 8 ST
OscEvents == {EvOSC(<<<<56>>, <<>>, <<117>>>>), EvOSC(<<<<56>>>>)}

\* ESC [ ! p and ESC c
ResetEvents == {EvCSI(<<<<>>>>, <<33>>, 112), EvEsc(<<>>, 99)}

\* A, LF, ESC [ 2 C and ESC [ 1 K
WriteEvents ==
    {EvPrint(65), EvCtrl(LF), EvCSI(<<<<50>>>>, <<>>, 67), EvCSI(<<<<49>>>>, <<>>, 75)}

DispatchWrite == \E e \in WriteEvents : Dispatch(e)
DispatchSGR == \E e \in SgrEvents : Dispatch(e)
DispatchOSC == \E e \in OscEvents : Dispatch(e)
DispatchReset == \E e \in ResetEvents : Dispatch(e)

NextAttr ==
    \/ DispatchWrite
    \/ DispatchSGR
    \/ DispatchOSC
    \/ DispatchReset

SpecAttr == Init /\ [][NextAttr]_vars

\* C1: the bundle a node of the active line or of the scrollback points to has
\* the same flags, colours and URI in the next state; the bundle the active
\* attributes point to never changes in place: when the active attributes
\* change, they point to a bundle allocated in that step.
C1_CopyOnWrite ==
    [][/\ \A a \in NodeAddrs(M) \ {NilAddr} :
             a \in DOMAIN heap' => heap'[a] = heap[a]
       /\ activeAttributes' = activeAttributes =>
             heap'[activeAttributes'] = heap[activeAttributes]
       /\ activeAttributes' # activeAttributes =>
             activeAttributes' \notin DOMAIN heap
      ]_vars

\* C1 witness: after nodes were written, an SGR has changed the active
\* attributes, and a node still points to the bundle it was written with.
C1_Witness ==
    /\ dispatched = <<EvCSI(<<<<49>>>>, <<>>, 109)>>
    /\ Len(activeLine) >= 1
    /\ scrollback # <<>>
    /\ scrollback[1] # <<>>
    /\ heap[activeLine[1].attrs] # heap[activeAttributes]
    /\ heap[scrollback[1][1].attrs] # heap[activeLine[1].attrs]

(***************************************************************************)
(* SpecStyle: printRune beside the SGR sequences of the extended colours   *)
(* and of the flags, OSC 8, and the sequences no handler knows.            *)
(***************************************************************************)
\* ESC [ p1 ; ... ; pk m for the vectors ns below, and OSC 8.
StyleEvents ==
    LET Dec(n) == IF n < 10 THEN <<48 + n>>
                  ELSE <<48 + (n \div 10), 48 + (n % 10)>>
        SGR(ns) == EvCSI([i \in 1..Len(ns) |-> Dec(ns[i])], <<>>, 109)
    IN  {SGR(ns) : ns \in {<<38>>, <<48>>, <<38, 2, 1, 2>>, <<38, 2, 1, 2, 3>>,
                           <<48, 2, 1, 2, 3, 4>>, <<38, 5>>, <<38, 5, 1>>,
                           <<48, 5, 2, 1>>, <<38, 7, 1>>, <<1, 38, 5, 3>>,
                           <<38, 38, 5, 1>>, <<73>>, <<74>>, <<75>>, <<73, 74>>,
                           <<31>>, <<39>>, <<1>>, <<21>>, <<0>>, <<1, 21>>,
                           <<31, 39>>}}
        \cup OscEvents

\* ESC 7, ESC # c, ESC [ ? 1 l, ESC [ > m, ESC [ ? 1 m, ESC [ > 1 l, ESC [ z,
\* ESC [ ! m, OSC 0 ; t BEL, OSC BEL, OSC 133 BEL, ESC P 1 q, ESC P q
UnknownEvents ==
    {EvEsc(<<>>, 55), EvEsc(<<35>>, 99),
     EvCSI(<<<<49>>>>, <<63>>, 108), EvCSI(<<<<>>>>, <<62>>, 109),
     EvCSI(<<<<49>>>>, <<63>>, 109), EvCSI(<<<<49>>>>, <<62>>, 108),
     EvCSI(<<<<>>>>, <<>>, 122), EvCSI(<<<<>>>>, <<33>>, 109),
     EvOSC(<<<<48>>, <<116>>>>), EvOSC(<<<<>>>>), EvOSC(<<<<49, 51, 51>>>>),
     EvDSC(<<<<49>>>>, <<>>, 113), EvDSC(<<<<>>>>, <<>>, 113)}

\* A handler is called with one of these events, a reset or a printable rune.
DispatchStyle ==
    /\ nops < MaxStyleOps
    /\ \E e \in PrintEvents \cup StyleEvents \cup ResetEvents \cup UnknownEvents :
          Dispatch(e)

SpecStyle == Init /\ [][DispatchStyle]_vars

(***************************************************************************)
(* SpecRender: the handlers that write and erase cells and move the        *)
(* cursor, with bold and a hyperlink, on one line of up to MaxRenderLen    *)
(* cells; Lines() may render the screen after any of them.                 *)
(***************************************************************************)
\* A handler is called with A, ESC [ 2 D, ESC [ 3 C, ESC [ K, ESC [ 1 m or
\* OSC 8 ; ; u ST and runs to its end.
DispatchRender ==
    /\ panicked = ""
    /\ opc = "idle"
    /\ nops < MaxRenderOps
    /\ \E e \in {EvPrint(65), EvCSI(<<<<50>>>>, <<>>, 68), EvCSI(<<<<51>>>>, <<>>, 67),
                  EvCSI(<<<<>>>>, <<>>, 75), EvCSI(<<<<49>>>>, <<>>, 109),
                  EvOSC(<<<<56>>, <<>>, <<117>>>>)} :
          LET m == Handle([M EXCEPT !.dispatched = <<e>>, !.nops = @ + 1], <<e>>)
          IN  Len(m.activeLine) <= MaxRenderLen /\ Set(m)

SpecRender == Init /\ [][DispatchRender]_vars

(***************************************************************************)
(* The parser thread (Run) and the child process that writes to the pty.   *)
(***************************************************************************)
\* One pass of the parser thread, when the read it waits in can return.
ParserStep ==
    /\ panicked = ""
    /\ CanStep(M)
    /\ SetInBounds(Step([M EXCEPT !.dispatched = <<>>]))

RunStep == pc = "Run" /\ ParserStep

ContinueStep == pc = "Continue" /\ ParserStep

StateStep == pc = "State" /\ ParserStep

\* The parser thread waits in a read of the empty pty.
Blocked == panicked = "" /\ pc \in {"Continue", "State"} /\ ~CanStep(M)

\* The child writes the bytes of chunk.
Write(chunk) ==
    /\ ~closed
    /\ panicked = ""
    /\ pc # "Done"
    /\ nops < MaxOps
    /\ Set([M EXCEPT !.buf = @ \o chunk,
                     !.nops = @ + 1,
                     !.sent = IF recording THEN @ \o chunk ELSE @])

\* The child exits: the pty is closed.
Close ==
    /\ ~closed
    /\ panicked = ""
    /\ pc # "Done"
    /\ Set([M EXCEPT !.closed = TRUE])

(***************************************************************************)
(* SpecParser: Run over CSI sequences; the child writes a piece of a       *)
(* sequence when the parser waits for input.                               *)
(***************************************************************************)
\* ESC [    ?    47    1049    ;    h    m    LF
ParserChunks ==
    {<<ESC, 91>>, <<63>>, <<52, 55>>, <<49, 48, 52, 57>>, <<59>>, <<104>>,
     <<109>>, <<LF>>}

WriteParser == \E chunk \in ParserChunks : Blocked /\ buf = <<>> /\ Write(chunk)

CloseParser == Blocked /\ buf = <<>> /\ Close

NextParser ==
    \/ RunStep
    \/ ContinueStep
    \/ StateStep
    \/ WriteParser
    \/ CloseParser

SpecParser == Init /\ [][NextParser]_vars

(***************************************************************************)
(* SpecChunk: Run over a stream the child writes byte by byte, at any      *)
(* moment: every split of the stream into reads, and every timing of them. *)
(***************************************************************************)
\* 0xC3 0xA9 (U+00E9), ESC, '[', 'A'
ChunkBytes == {195, 169, ESC, 91, 65}

WriteByte == \E c \in ChunkBytes : Write(<<c>>)

NextChunk ==
    \/ RunStep
    \/ ContinueStep
    \/ StateStep
    \/ WriteByte
    \/ Close

InitChunk == InitWith(TRUE)

SpecChunk == InitChunk /\ [][NextChunk]_vars

RECURSIVE RunToEnd(_)
\* Run from m to its return or its panic, when no read has to wait.
RunToEnd(m) ==
    IF m.pc = "Done" \/ m.panicked # "" THEN m
    ELSE RunToEnd(Step([m EXCEPT !.dispatched = <<>>]))

\* The state New() returns, as a record.
Fresh ==
    [M EXCEPT !.scrollback = <<>>, !.activeLine = <<>>, !.spare = <<>>, !.pos = 0,
              !.activeAttributes = 0, !.heap = (0 :> EmptyAttributes),
              !.upgraded = FALSE, !.hookCalls = 0, !.panicked = "",
              !.state = "parseOutput", !.partialParam = <<>>,
              !.partialParams = <<>>, !.partialIntermediates = <<>>,
              !.buf = <<>>, !.closed = FALSE, !.pc = "Run", !.lastState = "nil",
              !.err = "", !.cancelled = FALSE, !.dispatched = <<>>, !.wire = <<>>,
              !.nops = 0, !.sent = <<>>, !.history = <<>>, !.opc = "idle",
              !.linesCalls = 0, !.linesSeen = <<>>,
              !.inCall = [read |-> 0, events |-> 0]]

\* Run over the stream S delivered by one read, then the end of the stream.
AllAtOnce(S) == RunToEnd([Fresh EXCEPT !.buf = S, !.closed = TRUE, !.sent = S])

\* The screen of m: what Lines() and the later operations can tell apart.
ScreenOf(m) ==
    [scrollback |-> m.scrollback, activeLine |-> m.activeLine, pos |-> m.pos,
     spare |-> m.spare, activeAttributes |-> m.heap[m.activeAttributes],
     heap |-> m.heap, upgraded |-> m.upgraded, panicked |-> m.panicked,
     lines |-> Lines(m)]

(***************************************************************************)
(* SpecScript: Run over one of a few byte streams, which the child writes  *)
(* byte by byte at any moment and may end (EOF) after any byte.            *)
(***************************************************************************)
\* ESC ] 8 ; ; https://x/ ESC \ ESC [ 1 m H i ESC [ 2 2 m ESC ] 8 ; ; ESC \ .
\* 0x80 A        A 0x80        LF 0x80 A        0xC3 0xA9 0x80
\* ESC X A ESC c        ESC P q A ESC c
\* ESC SP F        ESC SP ! F        ESC # ! 0        ESC ( DEL B
\* ESC 0xC3 0xA9
\* ESC [ DEL m        ESC DEL c        ESC [ 1 DEL m        ESC [ 1 SP DEL q
\* ESC [ 1 : 2 m A    ESC [ 1 ? m A    ESC [ SP 1 m A       ESC [ : m A
\* ESC ] BEL A        ESC ] ESC \ A    ESC ] 0 ; t BEL A    ESC ] 0 ; t ESC \ A
\* ESC [ 1 LF m       ESC [ LF m       ESC [ 1 2 CR ; 3 m   ESC [ SP CR q
\* ESC [ 1 CAN m      ESC [ 1 2 SUB m  ESC ] 0 ; t CAN x BEL    ESC P 1 CAN q
Scripts ==
    {<<ESC, 93, 56, 59, 59, 104, 116, 116, 112, 115, 58, 47, 47, 120, 47, ESC, 92,
       ESC, 91, 49, 109, 72, 105, ESC, 91, 50, 50, 109,
       ESC, 93, 56, 59, 59, ESC, 92, 46>>,
     <<128, 65>>, <<65, 128>>, <<LF, 128, 65>>, <<195, 169, 128>>,
     <<ESC, 88, 65, ESC, 99>>, <<ESC, 80, 113, 65, ESC, 99>>,
     <<ESC, 32, 70>>, <<ESC, 32, 33, 70>>, <<ESC, 35, 33, 48>>,
     <<ESC, 40, DEL, 66>>, <<ESC, 195, 169>>,
     <<ESC, 91, DEL, 109>>, <<ESC, DEL, 99>>, <<ESC, 91, 49, DEL, 109>>,
     <<ESC, 91, 49, 32, DEL, 113>>,
     <<ESC, 91, 49, 58, 50, 109, 65>>, <<ESC, 91, 49, 63, 109, 65>>,
     <<ESC, 91, 32, 49, 109, 65>>, <<ESC, 91, 58, 109, 65>>,
     <<ESC, 93, BEL, 65>>, <<ESC, 93, ESC, 92, 65>>,
     <<ESC, 93, 48, 59, 116, BEL, 65>>, <<ESC, 93, 48, 59, 116, ESC, 92, 65>>,
     <<ESC, 91, 49, LF, 109>>, <<ESC, 91, LF, 109>>,
     <<ESC, 91, 49, 50, CR, 59, 51, 109>>, <<ESC, 91, 32, CR, 113>>,
     <<ESC, 91, 49, CAN, 109>>, <<ESC, 91, 49, 50, SUB, 109>>,
     <<ESC, 93, 48, 59, 116, CAN, 120, BEL>>, <<ESC, 80, 49, CAN, 113>>}

\* The child writes the next byte of the stream it is writing.
WriteScript ==
    \E s \in Scripts :
        /\ ~closed
        /\ panicked = ""
        /\ pc # "Done"
        /\ Len(sent) < Len(s)
        /\ SubSeq(s, 1, Len(sent)) = sent
        /\ Set([M EXCEPT !.buf = Append(@, s[Len(sent) + 1]),
                         !.sent = Append(@, s[Len(sent) + 1])])

NextScript ==
    \/ RunStep
    \/ ContinueStep
    \/ StateStep
    \/ WriteScript
    \/ Close

SpecScript == InitChunk /\ [][NextScript]_vars

\* The parser thread has a step to take: the guard of ParserStep.
CanRun ==
    /\ panicked = ""
    /\ CanStep(M)
    /\ InBounds(Step([M EXCEPT !.dispatched = <<>>]))

\* The parser thread is scheduled as long as it can run: the weak fairness
\* WF_vars(RunStep \/ ContinueStep \/ StateStep), with the enabling condition
\* of the three steps written out as CanRun.
FairScript ==
    /\ SpecScript
    /\ \/ []<>(~CanRun)
       \/ []<><<RunStep \/ ContinueStep \/ StateStep>>_vars

(***************************************************************************)
(* SpecLines: the parser thread inside its handlers, and the HTTP handler  *)
(* (main.go, serveStdout) that calls Lines() from another goroutine.  No   *)
(* lock orders the two: Lines() reads the screen between any two           *)
(* statements of newline.                                                  *)
(***************************************************************************)
LinesPrintEvents == {EvPrint(65), EvPrint(66)}

LinesPrint == \E e \in LinesPrintEvents : Dispatch(e)

\* handleCtrl(LF) up to the first statement of newline
NewlineAppend ==
    /\ panicked = ""
    /\ opc = "idle"
    /\ nops < MaxOps
    /\ SetInBounds([newlineAppend(M) EXCEPT !.dispatched = <<EvCtrl(LF)>>,
                                             !.nops = @ + 1, !.opc = "appended"])

\* the second statement of newline
NewlineNil ==
    /\ opc = "appended"
    /\ Set([newlineNil(M) EXCEPT !.opc = "niled"])

\* the third statement of newline, and the return of handleCtrl
NewlinePos ==
    /\ opc = "niled"
    /\ Set([Collect(newlinePos(M)) EXCEPT !.opc = "idle"])

\* serveStdout: a call of term.Lines()
LinesCall ==
    /\ nops < MaxOps
    /\ Set([M EXCEPT !.linesSeen = Lines(M), !.linesCalls = @ + 1,
                     !.nops = @ + 1])

NextLines ==
    \/ LinesPrint
    \/ NewlineAppend
    \/ NewlineNil
    \/ NewlinePos
    \/ LinesCall

SpecLines == Init /\ [][NextLines]_vars

\* The screen before the newline in progress, and the screen after it.
PreOp(t) ==
    CASE t.opc = "idle" -> t
      [] t.opc = "appended" ->
            [t EXCEPT !.scrollback = SubSeq(@, 1, Len(@) - 1)]
      [] t.opc = "niled" ->
            [t EXCEPT !.scrollback = SubSeq(@, 1, Len(@) - 1),
                      !.activeLine = t.scrollback[Len(t.scrollback)]]

PostOp(t) == IF t.opc = "idle" THEN t ELSE newline(PreOp(t))

\* C4 (as claimed): what a call of Lines() returns is the screen before or
\* after the screen operation in progress, never a state in between: never
\* the old active line both as the last line of the scrollback and as the
\* active line.
C4_LinesMutualExclusion ==
    [][linesCalls' # linesCalls =>
          linesSeen' \in {Lines(PreOp(M)), Lines(PostOp(M))}
      ]_vars

(***************************************************************************)
(* Properties of the screen operations, under Spec.                        *)
(***************************************************************************)
IsPrefix(a, b) == Len(a) <= Len(b) /\ SubSeq(b, 1, Len(a)) = a

\* The event the step to the next state delivered, when it delivered one.
Delivered(e) == dispatched' = <<e>>

\* The events that call newline.
IsNewlineCtrl(e) == e.kind = "handleCtrl" /\ e.final \in {LF, FF, VT, NEL}

IsRIS(e) == e.kind = "handleEsc" /\ e.intermediates = <<>> /\ e.final = 99

IsCNL(e) == e.kind = "handleCSI" /\ e.intermediates = <<>> /\ e.final = 69

SetPosTarget(e) ==
    LET n == convertParamsWithDefault(e.params, 1).nParams
    IN  CASE e.kind = "handleCtrl" -> pos - 1
          [] e.final = 67 -> pos + n[1]
          [] e.final = 68 -> pos - n[1]
          [] e.final = 71 -> n[1] - 1
          [] e.final = 72 -> IF Len(n) >= 2 THEN n[2] - 1 ELSE 0

IsSetPosEvent(e) ==
    \/ e.kind = "handleCtrl" /\ e.final = BS
    \/ e.kind = "handleCSI" /\ e.intermediates = <<>> /\ e.final \in {67, 68, 71, 72}

\* C5 (as claimed): after setPos(x, y) with y > len(activeLine), reached by
\* BS, CSI C, CSI D, CSI G or CSI H, the active line has length y, pos = y and
\* the cells added are spaces that carry the current bundle; with y < 0, pos
\* is 0 and the line is unchanged.
C5_SetPosPads ==
    [][\A e \in CtrlEvents \cup CsiEvents :
          Delivered(e) /\ IsSetPosEvent(e) =>
             LET y == SetPosTarget(e)
             IN  /\ y > Len(activeLine) =>
                      /\ Len(activeLine') = y
                      /\ pos' = y
                      /\ \A i \in (Len(activeLine) + 1)..Len(activeLine') :
                            activeLine'[i] = Node(32, activeAttributes)
                 /\ y < 0 => pos' = 0 /\ activeLine' = activeLine
      ]_vars

\* C7 (as claimed): DEL on an empty active line changes nothing; on any other
\* line it removes the cell at pos-1, moves the later cells left by one and
\* decrements pos, and does not fail.
C7_Backspace ==
    [][Delivered(EvCtrl(DEL)) =>
          IF activeLine = <<>>
          THEN /\ activeLine' = activeLine /\ pos' = pos
               /\ scrollback' = scrollback
               /\ activeAttributes' = activeAttributes
               /\ panicked' = ""
          ELSE /\ panicked' = ""
               /\ pos' = pos - 1
               /\ activeLine' = SubSeq(activeLine, 1, pos - 1)
                                \o SubSeq(activeLine, pos + 1, Len(activeLine))
      ]_vars

\* The parameter n of an erase event, with the default 0.
EraseParam(e) == convertParamsWithDefault(e.params, 0).nParams[1]

IsEraseEvent(e) ==
    e.kind = "handleCSI" /\ e.intermediates = <<>> /\ e.final \in {74, 75}

\* C8 (as claimed): CSI n K and CSI n J with n = 0 cut the active line to its
\* first pos cells; with n = 1 they put spaces that carry the current bundle
\* in the cells [0, pos) and keep the other cells and the length; with n = 2
\* the line is empty and pos is 0; any other n changes nothing.  pos changes
\* only for n = 2; the scrollback and the active attributes never change, and
\* nothing fails.
C8_Erase ==
    [][\A e \in CsiEvents :
          Delivered(e) /\ IsEraseEvent(e) =>
             LET n == EraseParam(e)
             IN  /\ panicked' = ""
                 /\ scrollback' = scrollback
                 /\ activeAttributes' = activeAttributes
                 /\ heap'[activeAttributes'] = heap[activeAttributes]
                 /\ n = 0 => /\ activeLine' = SubSeq(activeLine, 1, pos)
                             /\ Len(activeLine') = pos
                             /\ pos' = pos
                 /\ n = 1 => /\ Len(activeLine') = Len(activeLine)
                             /\ pos' = pos
                             /\ \A i \in 1..Len(activeLine) :
                                   activeLine'[i] =
                                      IF i <= pos THEN Node(32, activeAttributes)
                                      ELSE activeLine[i]
                 /\ n = 2 => activeLine' = <<>> /\ pos' = 0
                 /\ n \notin {0, 1, 2} => activeLine' = activeLine /\ pos' = pos
      ]_vars

\* The default handleCSI gives an empty parameter of a sequence with final f.
DefaultOf(f) == IF f \in {74, 75, 109} THEN <<48>> ELSE <<49>>

\* params with every empty element replaced by d
Substituted(ps, d) == [i \in 1..Len(ps) |-> IF ps[i] = <<>> THEN d ELSE ps[i]]

\* The event e with the defaults of its final byte written out.
WithDefaults(e) == [e EXCEPT !.params = Substituted(@, DefaultOf(e.final))]

\* The events C9 is about: CSI C, D, E, G, H, J, K and m.
HasDefault(e) ==
    /\ e.kind = "handleCSI"
    /\ e.intermediates = <<>>
    /\ e.final \in {67, 68, 69, 71, 72, 74, 75, 109}

\* The state after the handler of e, from the state t.
After(t, e) == Handle([t EXCEPT !.dispatched = <<e>>, !.nops = @ + 1], <<e>>)

\* C9: a step that delivers CSI C, D, E, G, H, J, K or m with empty parameters
\* leads to the state the same sequence leads to with each empty parameter
\* replaced by the default of its final byte (1 for C, D, E, G, H; 0 for J, K,
\* m).  CSI H with no parameter sets pos to 0; CSI H acts as setPos on the
\* column (second parameter - 1), whatever the row; CSI C and CSI D with no
\* parameter act as right(1) and left(1); SGR with no parameter resets the
\* attributes as SGR 0 does.
C9_DefaultSubstitution ==
    [][\A e \in CsiEvents :
          Delivered(e) /\ HasDefault(e) =>
             /\ M' = [After(M, WithDefaults(e)) EXCEPT !.dispatched = <<e>>]
             /\ e = EvCSI(<<<<>>>>, <<>>, 72) => pos' = 0
             /\ e.final = 72 =>
                   LET n == convertParamsWithDefault(WithDefaults(e).params, 1).nParams
                       col == IF Len(n) >= 2 THEN n[2] - 1 ELSE 0
                   IN  /\ ScreenOf(M') = ScreenOf(Collect(setPos(M, 0, col)))
                       /\ M' = [After(M, [e EXCEPT !.params[1] = <<57>>])
                                    EXCEPT !.dispatched = <<e>>]
             /\ e = EvCSI(<<<<>>>>, <<>>, 67) =>
                   ScreenOf(M') = ScreenOf(Collect(right(M, 1)))
             /\ e = EvCSI(<<<<>>>>, <<>>, 68) =>
                   ScreenOf(M') = ScreenOf(Collect(left(M, 1)))
             /\ e = EvCSI(<<<<>>>>, <<>>, 109) =>
                   /\ ScreenOf(M') = ScreenOf(Collect(resetAttributes(M)))
                   /\ M' = [After(M, EvCSI(<<<<48>>>>, <<>>, 109))
                                EXCEPT !.dispatched = <<e>>]
      ]_vars

\* C9 witness: CSI C with no parameter has moved the cursor of a non-empty line
\* from column 1 to column 2.
C9_Witness ==
    /\ dispatched = <<EvCSI(<<<<>>>>, <<>>, 67)>>
    /\ pos = 2
    /\ Len(activeLine) = 2
    /\ panicked = ""

(***************************************************************************)
(* Properties of the parser, under SpecParser and SpecChunk.               *)
(***************************************************************************)
RECURSIVE SplitParams(_, _, _)
\* The bytes of w split on ';': done holds the complete elements, cur the
\* element being read.
SplitParams(w, done, cur) ==
    IF w = <<>> THEN Append(done, cur)
    ELSE IF Head(w) = 59 THEN SplitParams(Tail(w), Append(done, cur), <<>>)
    ELSE SplitParams(Tail(w), done, Append(cur, Head(w)))

\* The number of ';' in w
Semicolons(w) == Cardinality({i \in 1..Len(w) : w[i] = 59})

\* C10: the vector of every handleCSI the parser delivers is the parameter
\* bytes read since the CSI introducer, split on ';' in order: it has one
\* element more than there are semicolons, [""] when there is no parameter
\* byte, a last element "" after a trailing semicolon; it is never empty, and
\* the panic of handleCSI on an empty vector does not happen.
C10_ParamVector ==
    /\ panicked # "CSI handler received nil param slice"
    /\ \A i \in 1..Len(dispatched) :
          dispatched[i].kind = "handleCSI" =>
             LET ps == dispatched[i].params
             IN  /\ ps = SplitParams(wire, <<>>, <<>>)
                 /\ Len(ps) = Semicolons(wire) + 1
                 /\ Len(ps) >= 1
                 /\ wire = <<>> => ps = <<<<>>>>
                 /\ (wire # <<>> /\ wire[Len(wire)] = 59) => ps[Len(ps)] = <<>>

\* C10 witness: ESC [ 47 ; m has delivered handleCSI(["47", ""], "", 'm').
C10_Witness ==
    /\ dispatched = <<EvCSI(<<<<52, 55>>, <<>>>>, <<>>, 109)>>
    /\ wire = <<52, 55, 59>>

\* The handleCSI events that ask for the alternate screen: CSI ? ... h with a
\* parameter 47 or 1049.
IsUpgradeRequest(e) ==
    /\ e.kind = "handleCSI"
    /\ e.intermediates = <<63>>
    /\ e.final = 104
    /\ \E i \in 1..Len(e.params) : e.params[i] \in {<<52, 55>>, <<49, 48, 52, 57>>}

\* C2 (as claimed): a step that delivers ESC [ ? 1049 h or ESC [ ? 47 h, that
\* is handleCSI with intermediates "?", final 'h' and a parameter 1049 or 47,
\* calls the upgrade hook, which has then been called exactly once, and sets
\* upgraded; and from a state where upgraded is set the parser thread delivers
\* no event: Run returns.
C2_UpgradeTrigger ==
    [][/\ \A i \in 1..Len(dispatched') :
             IsUpgradeRequest(dispatched'[i]) => upgraded' /\ hookCalls' = 1
       /\ upgraded => pc' = "Done" /\ dispatched' = <<>>
      ]_vars

\* C3: when Run has returned (or the program has panicked) over a stream the
\* child wrote in any pieces, the dispatch events delivered and the screen
\* are those of Run over the same stream delivered all at once; before that,
\* the events delivered so far are a prefix of them.
C3_ChunkingIndependence ==
    LET ref == AllAtOnce(sent)
    IN  /\ IsPrefix(history, ref.history)
        /\ (pc = "Done" /\ closed /\ buf = <<>>) \/ panicked # "" =>
              /\ history = ref.history
              /\ ScreenOf(M) = ScreenOf(ref)
              /\ err = ref.err

\* C3 witness: Run has returned over ESC [ A U+00E9 written byte by byte, and
\* the two bytes of U+00E9 were read after two writes.
C3_Witness ==
    /\ pc = "Done"
    /\ sent = <<ESC, 91, 65, 195, 169>>
    /\ history = <<EvCSI(<<<<>>>>, <<>>, 65), EvPrint(233)>>
(***************************************************************************)
(* Properties of the attributes and of rendering, under SpecStyle.         *)
(***************************************************************************)
\* Every cell of line points to a bundle equal to the all-defaults bundle.
AllDefault(line) ==
    \A i \in 1..Len(line) :
        line[i].attrs # NilAddr /\ heap[line[i].attrs] = EmptyAttributes

RECURSIVE EscapedRunes(_)
\* The HTML-escaped runes of line, one after the other.
EscapedRunes(line) ==
    IF line = <<>> THEN <<>>
    ELSE EscapeString(StringOfRune(Head(line).rune)) \o EscapedRunes(Tail(line))

\* C12: a line of the screen whose every cell points to a bundle equal to the
\* all-defaults bundle, whatever its address, renders as its HTML-escaped
\* runes alone: no '<' of a span or of an anchor; an empty line renders as
\* the empty string.
C12_DefaultBundlePlain ==
    LET all == Append(scrollback, activeLine)
    IN  \A k \in 1..Len(all) :
            LET r == renderLine(heap, all[k])
            IN  /\ AllDefault(all[k]) =>
                     /\ r.ok
                     /\ r.html = EscapedRunes(all[k])
                     /\ \A j \in 1..Len(r.html) : r.html[j] # 60
                /\ all[k] = <<>> => r = [ok |-> TRUE, html |-> <<>>]

\* C12 witness: one sequence (SGR 1;21 or SGR 31;39) has set and reset a flag
\* or a colour, and the A printed after it points to the copy, at another
\* address than the first bundle, and renders as A.
C12_Witness ==
    /\ nops = 2
    /\ dispatched = <<EvPrint(65)>>
    /\ activeLine = <<Node(65, 2)>>
    /\ heap[2] = EmptyAttributes
    /\ renderLine(heap, activeLine) = [ok |-> TRUE, html |-> <<65>>]

\* The SGR events: ESC [ ... m.
IsSGR(e) == e.kind = "handleCSI" /\ e.intermediates = <<>> /\ e.final = 109

\* The number of parameters the rule of C13 lets the head of n consume.
ClaimedHandled(n) ==
    IF n[1] \in {38, 48}
    THEN IF Len(n) >= 5 /\ n[2] = 2 THEN 5
         ELSE IF Len(n) >= 3 /\ n[2] = 5 THEN 3
         ELSE 1
    ELSE 1

\* The effect the rule of C13 gives the head of n: a direct colour, an indexed
\* colour, nothing at all, or the ordinary SGR parameter alone.
ClaimedEffect(t, n) ==
    LET k == ClaimedHandled(n)
        c == IF k = 5 THEN RGBColor(n[3], n[4], n[5]) ELSE ANSIColor(n[3])
    IN  IF n[1] \notin {38, 48} THEN handleSGR(t, <<n[1]>>).t
        ELSE IF k = 1 THEN t
        ELSE IF n[1] = 38 THEN setFg(t, c)
        ELSE setBg(t, c)

RECURSIVE ClaimedLoop(_, _)
\* The SGR loop as C13 describes it: [ok, t], ok when handleSGR consumed at
\* every step what the rule says, inside the vector, with the rule's effect.
ClaimedLoop(t, n) ==
    IF n = <<>> THEN [ok |-> TRUE, t |-> t]
    ELSE LET k == ClaimedHandled(n)
             r == handleSGR(t, n)
             rest == ClaimedLoop(ClaimedEffect(t, n), SubSeq(n, k + 1, Len(n)))
         IN  [ok |-> /\ r.handled = k
                     /\ k >= 1 /\ k <= Len(n)
                     /\ r.t = ClaimedEffect(t, n)
                     /\ rest.ok,
              t |-> rest.t]

\* C13: a step that delivers an SGR sequence consumes its parameters left to
\* right: a 38 or 48 takes 5 parameters and sets a direct colour when the next
\* is 2 and three more follow, 3 and an indexed colour when the next is 5 and
\* one more follows, and else itself alone with no colour change; any other
\* parameter takes 1; the parameters after those consumed are handled as
\* ordinary parameters, no step reads past the end, and the loop ends.
C13_ExtendedColour ==
    [][\A e \in StyleEvents :
          Delivered(e) /\ IsSGR(e) =>
             LET n == convertParamsWithDefault(e.params, 0).nParams
                 c == ClaimedLoop(M, n)
             IN  /\ c.ok
                 /\ panicked' = ""
                 /\ ScreenOf(M') = ScreenOf(Collect(c.t))
      ]_vars

\* C13 witness: ESC [ 48;2;1;2;3;4 m has set the background to the direct
\* colour (1, 2, 3) and then Underline, on top of a foreground set before.
C13_Witness ==
    /\ dispatched = <<EvCSI(<<<<52, 56>>, <<50>>, <<49>>, <<50>>, <<51>>, <<52>>>>,
                            <<>>, 109)>>
    /\ heap[activeAttributes].bg = RGBColor(1, 2, 3)
    /\ heap[activeAttributes].fg = ANSIColor(1)
    /\ heap[activeAttributes].styleFlags = {"Underline"}

\* The active bundle after the step is the one before it with flags fs.
OnlyFlagsChange(fs) ==
    heap'[activeAttributes'] = [heap[activeAttributes] EXCEPT !.styleFlags = fs]

\* C14: no bundle of the heap, so neither the active one nor that of any
\* node written, has both Superscript and Subscript; SGR 73 leaves of the two
\* exactly Superscript, SGR 74 exactly Subscript, SGR 75 neither, and the
\* other flags, the colours and the URI are those before the sequence.
C14_SuperSubExclusive ==
    /\ [](\A a \in DOMAIN heap :
             ~({"Superscript", "Subscript"} \subseteq heap[a].styleFlags))
    /\ [][LET fs == heap[activeAttributes].styleFlags
               both == {"Superscript", "Subscript"}
           IN  /\ Delivered(EvCSI(<<<<55, 51>>>>, <<>>, 109)) =>
                     OnlyFlagsChange((fs \ both) \cup {"Superscript"})
               /\ Delivered(EvCSI(<<<<55, 52>>>>, <<>>, 109)) =>
                     OnlyFlagsChange((fs \ both) \cup {"Subscript"})
               /\ Delivered(EvCSI(<<<<55, 53>>>>, <<>>, 109)) =>
                     OnlyFlagsChange(fs \ both)
         ]_vars

\* C14 witness: SGR 74 after SGR 73 and a printed A: the active bundle has
\* Subscript alone, the node of A has Superscript alone.
C14_Witness ==
    /\ dispatched = <<EvCSI(<<<<55, 52>>>>, <<>>, 109)>>
    /\ heap[activeAttributes].styleFlags = {"Subscript"}
    /\ Len(activeLine) = 1
    /\ heap[activeLine[1].attrs].styleFlags = {"Superscript"}

\* C16: a step that delivers a handleEsc other than ESC c, a handleCSI whose
\* intermediates and final no case handles, a handleOSC whose first parameter
\* is not 8, or a handleDSC leaves the scrollback, the active line, pos and
\* the active attributes as they were, and does not fail.
C16_UnknownIgnored ==
    [][\A e \in UnknownEvents :
          Delivered(e) =>
             /\ scrollback' = scrollback
             /\ activeLine' = activeLine
             /\ spare' = spare
             /\ pos' = pos
             /\ activeAttributes' = activeAttributes
             /\ heap' = heap
             /\ upgraded' = upgraded
             /\ panicked' = ""
      ]_vars

\* C16 witness: ESC [ ? 1 m was delivered on a line that holds a bold A, with
\* Bold active, and nothing has changed.
C16_Witness ==
    /\ dispatched = <<EvCSI(<<<<49>>>>, <<63>>, 109)>>
    /\ Len(activeLine) = 1
    /\ pos = 1
    /\ heap[activeAttributes].styleFlags = {"Bold"}
    /\ activeLine[1].attrs = activeAttributes

\* The place of the first b in w.
FirstAt(w, b) == CHOOSE k \in 1..Len(w) : w[k] = b /\ \A j \in 1..(k - 1) : w[j] # b

RECURSIVE Tokens(_)
\* The markup w as its tags and cells: "a", "span", "/span", "/a" for a tag,
\* "cell" for a character or a character entity outside the tags.
Tokens(w) ==
    IF w = <<>> THEN <<>>
    ELSE IF w[1] = 60
    THEN LET k == FirstAt(w, 62)
             kind == IF w[2] = 47
                     THEN (IF w[3] = 97 THEN "/a" ELSE "/span")
                     ELSE (IF w[2] = 97 THEN "a" ELSE "span")
         IN  <<kind>> \o Tokens(SubSeq(w, k + 1, Len(w)))
    ELSE IF w[1] = 38
    THEN <<"cell">> \o Tokens(SubSeq(w, FirstAt(w, 59) + 1, Len(w)))
    ELSE <<"cell">> \o Tokens(Tail(w))

RECURSIVE ClaimedTokens(_, _, _)
\* The tags and cells the claim gives the cells i.. of line: around every
\* maximal run of cells with value-equal bundles an anchor when the bundle has
\* a URI and, inside it, a span when the bundle is not all-defaults.
ClaimedTokens(h, line, i) ==
    IF i > Len(line) THEN <<>>
    ELSE LET b == h[line[i].attrs]
             first == i = 1 \/ h[line[i - 1].attrs] # b
             last == i = Len(line) \/ h[line[i + 1].attrs] # b
         IN  (IF first /\ b.uri # <<>> THEN <<"a">> ELSE <<>>)
             \o (IF first /\ b # EmptyAttributes THEN <<"span">> ELSE <<>>)
             \o <<"cell">>
             \o (IF last /\ b # EmptyAttributes THEN <<"/span">> ELSE <<>>)
             \o (IF last /\ b.uri # <<>> THEN <<"/a">> ELSE <<>>)
             \o ClaimedTokens(h, line, i + 1)

\* C25 (as claimed): every line of the screen renders, and its markup is the
\* well-nested one of the claim: one anchor (outermost) and one span around
\* each maximal run of cells with value-equal bundles, the anchor exactly when
\* the bundle has a URI, the span exactly when it is not all-defaults.
C25_WellNested ==
    LET all == Append(scrollback, activeLine)
    IN  \A i \in 1..Len(all) :
            LET r == renderLine(heap, all[i])
            IN  r.ok /\ Tokens(r.html) = ClaimedTokens(heap, all[i], 1)

(***************************************************************************)
(* Properties of the cursor, under Spec.                                   *)
(***************************************************************************)
\* C26 (as claimed): the cursor stays inside the active line, 0 <= pos <=
\* len(activeLine), and no screen operation fails.
C26_CursorBound ==
    /\ 0 <= pos
    /\ pos <= Len(activeLine)
    /\ panicked = ""

\* e is a cursor movement: BS, CR, CSI C, CSI D, CSI G or CSI H.
IsCursorMove(e) ==
    \/ e.kind = "handleCtrl" /\ e.final \in {BS, CR}
    \/ e.kind = "handleCSI" /\ e.intermediates = <<>> /\ e.final \in {67, 68, 71, 72}

\* C27 (as claimed): a cursor movement leaves every cell of the active line
\* as it is, rune and bundle; all it may do to the line is append space
\* cells at its end.
C27_MovePreservesContent ==
    [][(nops' = nops + 1 /\ Len(dispatched') = 1 /\ IsCursorMove(dispatched'[1])) =>
          /\ Len(activeLine') >= Len(activeLine)
          /\ SubSeq(activeLine', 1, Len(activeLine)) = activeLine
          /\ \A i \in 1..Len(activeLine) :
                 activeLine[i].attrs # NilAddr =>
                     heap'[activeLine[i].attrs] = heap[activeLine[i].attrs]
          /\ \A i \in (Len(activeLine) + 1)..Len(activeLine') :
                 activeLine'[i].rune = 32
      ]_vars

(***************************************************************************)
(* Properties of whole byte streams, under SpecScript.                     *)
(***************************************************************************)
\* The stream of the nested bold + hyperlink scenario, and its URI.
NestedInput ==
    <<ESC, 93, 56, 59, 59, 104, 116, 116, 112, 115, 58, 47, 47, 120, 47, ESC, 92,
      ESC, 91, 49, 109, 72, 105, ESC, 91, 50, 50, 109,
      ESC, 93, 56, 59, 59, ESC, 92, 46>>

NestedURI == <<104, 116, 116, 112, 115, 58, 47, 47, 120, 47>>

\* C11 (as claimed): when the parser has read the whole of
\* ESC]8;;https://x/ ESC\ ESC[1m Hi ESC[22m ESC]8;; ESC\ . the cells H and i
\* carry a bundle with Bold set and the URI https://x/, the cell '.' carries a
\* bundle equal to the all-defaults bundle, and the line renders as one anchor
\* around one bold span around Hi, followed by a bare '.'.
C11_NestedBoldLink ==
    (sent = NestedInput /\ buf = <<>>) =>
        /\ Len(activeLine) = 3
        /\ activeLine[1].rune = 72 /\ activeLine[2].rune = 105
        /\ activeLine[3].rune = 46
        /\ \A i \in {1, 2} :
              /\ "Bold" \in heap[activeLine[i].attrs].styleFlags
              /\ heap[activeLine[i].attrs].uri = NestedURI
        /\ heap[activeLine[3].attrs] = EmptyAttributes
        /\ renderLine(heap, activeLine) =
              [ok |-> TRUE,
               html |-> Str("<a href=") \o NestedURI \o Str(">")
                        \o Str("<span style=") \o Str("font-weight:bold;")
                        \o Str(">") \o <<72, 105>> \o Str("</span>")
                        \o Str("</a>") \o <<46>>]
\* C15 (as claimed): no call of Continue delivers more than one of printRune,
\* handleEsc, handleCSI, handleOSC and handleDSC: it returns to Run after the
\* first.
C15_OneEventPerContinue == inCall.events <= 1

RECURSIVE Strip(_)
\* The stream S without its stray continuation bytes: the bytes 0x80..0xBF
\* that do not belong to a scalar started by a leader.
Strip(S) ==
    IF S = <<>> THEN <<>>
    ELSE IF IsCont(S[1]) THEN Strip(Tail(S))
    ELSE LET n == DecodeRune(S).size
         IN  SubSeq(S, 1, n) \o Strip(SubSeq(S, n + 1, Len(S)))

\* C18 (as claimed): a stray continuation byte is dropped wherever it occurs:
\* when Run has returned at the end of the stream, the events delivered and
\* the screen are those of the same stream without its stray continuation
\* bytes.
C18_StrayContinuationDropped ==
    LET ref == AllAtOnce(Strip(sent))
    IN  (pc = "Done" /\ closed /\ buf = <<>> /\ panicked = "") =>
            /\ history = ref.history
            /\ ScreenOf(M) = ScreenOf(ref)

\* C19 (as claimed): IgnoreAll is absorbing: from a state where the parser is
\* in IgnoreAll, every step leaves it in IgnoreAll (or stopped by a read
\* error) and delivers no printRune, handleEsc, handleCSI, handleOSC or
\* handleDSC.
C19_IgnoreAllAbsorbing ==
    [][state = "parseIgnoreAll" =>
          /\ state' \in {"parseIgnoreAll", "nil"}
          /\ \A i \in (Len(history) + 1)..Len(history') :
                 history'[i].kind = "handleCtrl"
      ]_vars

\* S is ESC, one or more intermediate bytes 0x20..0x2F, and a final byte
\* 0x30..0x7E.
IsEscWithIntermediates(S) ==
    /\ Len(S) >= 3
    /\ S[1] = ESC
    /\ \A i \in 2..(Len(S) - 1) : S[i] \in 32..47
    /\ S[Len(S)] \in 48..126

\* C20 (as claimed): when the parser has read the whole of ESC, k >= 1
\* intermediates and a final byte f, it has delivered exactly one
\* handleEsc(intermediates, f) with the k bytes in wire order, it has raised
\* no error, and it is in Output unless the end of the stream has stopped it
\* since.
C20_EscIntermediates ==
    (IsEscWithIntermediates(sent) /\ buf = <<>> /\ (Blocked \/ pc = "Done")) =>
        /\ history = <<EvEsc(SubSeq(sent, 2, Len(sent) - 1), sent[Len(sent)])>>
        /\ err \in {"", "EOF"}
        /\ err = "" => state = "parseOutput"

\* The parser has read and handled every byte written so far.
Quiet == buf = <<>> /\ (Blocked \/ pc = "Done")

\* The stream S without its bytes b.
Without(S, b) == SelectSeq(S, LAMBDA x : x # b)

\* C21 (as claimed): a DEL inside an escape or CSI sequence is consumed with
\* no dispatch and no error: when the parser has read the whole of a stream
\* that starts with ESC, the events delivered are those of the same stream
\* without its DEL bytes, and no error has been reported.
C21_DelIgnored ==
    (Quiet /\ sent # <<>> /\ sent[1] = ESC
           /\ \E i \in 1..Len(sent) : sent[i] = DEL) =>
        /\ history = AllAtOnce(Without(sent, DEL)).history
        /\ err \in {"", "EOF"}

\* The place of the first final byte 0x40..0x7E of S after ESC [, or 0.
FinalAt(S) ==
    IF \E k \in 3..Len(S) : S[k] \in 64..126
    THEN CHOOSE k \in 3..Len(S) :
             S[k] \in 64..126 /\ \A j \in 3..(k - 1) : S[j] \notin 64..126
    ELSE 0

\* S is ESC [, parameter and intermediate bytes that hold a colon, a private
\* marker after the first of them, or a byte 0x30..0x3F after an intermediate,
\* then a final byte, then printable ASCII text.
IsIgnoredCSI(S) ==
    /\ Len(S) >= 4
    /\ S[1] = ESC
    /\ S[2] = 91
    /\ FinalAt(S) # 0
    /\ LET k == FinalAt(S)
       IN  /\ \A j \in 3..(k - 1) : S[j] \in 32..63
           /\ \/ \E j \in 3..(k - 1) : S[j] = 58
              \/ \E j \in 4..(k - 1) : S[j] \in 60..63
              \/ \E i, j \in 3..(k - 1) : i < j /\ S[i] \in 32..47 /\ S[j] \in 48..63
           /\ \A j \in (k + 1)..Len(S) : S[j] \in 32..126

\* C22: a CSI sequence that holds a colon, a late private marker or a
\* parameter byte after an intermediate delivers no handleCSI: when the parser
\* has read the sequence and the text after it, it has delivered the printRune
\* of that text and nothing else, no handler has failed, and it is in Output;
\* and no step taken in CSIIgnore delivers a dispatch.
C22_CSIIgnore ==
    /\ [](IsIgnoredCSI(sent) => panicked = "")
    /\ [](IsIgnoredCSI(sent) /\ Quiet =>
            /\ history = [j \in 1..(Len(sent) - FinalAt(sent)) |->
                              EvPrint(sent[FinalAt(sent) + j])]
            /\ err \in {"", "EOF"}
            /\ err = "" => state = "parseOutput")
    /\ [][state = "parseCSIIgnore" =>
            \A i \in (Len(history) + 1)..Len(history') :
                history'[i].kind = "handleCtrl"
         ]_vars

\* C22 witness: ESC [ 1 : 2 m A has been read, and only the A was delivered.
C22_Witness ==
    /\ sent = <<ESC, 91, 49, 58, 50, 109, 65>>
    /\ Quiet
    /\ state = "parseOutput"
    /\ history = <<EvPrint(65)>>
    /\ activeLine # <<>>

\* The place of the first byte of S after ESC ] that is not graphical (the
\* terminator of the OSC string), or 0.
OscEndAt(S) ==
    IF \E k \in 3..Len(S) : S[k] \notin 32..126
    THEN CHOOSE k \in 3..Len(S) :
             S[k] \notin 32..126 /\ \A j \in 3..(k - 1) : S[j] \in 32..126
    ELSE 0

\* The length of the terminator of S at k: BEL, or ESC \ (ST); 0 if neither.
OscTerminator(S, k) ==
    IF k = 0 THEN 0
    ELSE IF S[k] = BEL THEN 1
    ELSE IF S[k] = ESC /\ k < Len(S) /\ S[k + 1] = 92 THEN 2
    ELSE 0

\* S is ESC ], a payload of graphical bytes (possibly empty), BEL or ESC \,
\* then printable ASCII text.
IsOSC(S) ==
    /\ Len(S) >= 3
    /\ S[1] = ESC
    /\ S[2] = 93
    /\ OscTerminator(S, OscEndAt(S)) # 0
    /\ LET t == OscEndAt(S) + OscTerminator(S, OscEndAt(S))
       IN  \A j \in t..Len(S) : S[j] \in 32..126

\* C23 (as claimed): when the parser has read ESC ] payload BEL or ESC ]
\* payload ESC \ and the text after it, it has delivered one handleOSC with
\* the payload split on ';', then the printRune of the text, and nothing
\* else: no handleCtrl, handleEsc or printRune for the terminator; no error
\* is reported and it is in Output.
C23_OSCTermination ==
    IsOSC(sent) /\ Quiet =>
        LET k == OscEndAt(sent)
            t == k + OscTerminator(sent, k)
        IN  /\ history = <<EvOSC(SplitParams(SubSeq(sent, 3, k - 1), <<>>, <<>>))>>
                         \o [j \in 1..(Len(sent) - t + 1) |-> EvPrint(sent[t + j - 1])]
            /\ err \in {"", "EOF"}
            /\ err = "" => state = "parseOutput"

\* S is ESC [ and bytes of a CSI sequence, the final byte last if there is
\* one, with C0 control codes among them.
IsCSIWithCtrl(S) ==
    /\ Len(S) >= 3
    /\ S[1] = ESC
    /\ S[2] = 91
    /\ \A j \in 3..(Len(S) - 1) : S[j] \in 32..63 \/ ctrlCode(S[j])
    /\ S[Len(S)] \in 32..126 \/ ctrlCode(S[Len(S)])
    /\ \E j \in 3..Len(S) : ctrlCode(S[j])

\* The parser is in a CSI state.
InCSI == state \in {"parseCSIEntry", "parseCSIParam", "parseCSIIntermediate"}

\* C24: a C0 control code inside a CSI sequence is delivered as handleCtrl
\* before the handleCSI of the sequence, whose arguments are those of the
\* sequence without the control codes; and the step of Continue that reads
\* the control code in a CSI state delivers its handleCtrl at once and leaves
\* the state, the parameters and the intermediates as they are.
C24_CtrlInsideCSI ==
    /\ [](IsCSIWithCtrl(sent) /\ Quiet =>
            LET ctl == SelectSeq(sent, ctrlCode)
            IN  /\ history = [j \in 1..Len(ctl) |-> EvCtrl(ctl[j])]
                             \o AllAtOnce(SelectSeq(sent, LAMBDA x : ~ctrlCode(x))).history
                /\ err \in {"", "EOF"})
    /\ [][(/\ InCSI
           /\ pc = "Continue"
           /\ pc' = "State"
           /\ buf # <<>>
           /\ ctrlCode(Head(buf))) =>
             /\ history' = Append(history, EvCtrl(Head(buf)))
             /\ state' = state
             /\ partialParams' = partialParams
             /\ partialParam' = partialParam
             /\ partialIntermediates' = partialIntermediates
         ]_vars

\* C24 witness: ESC [ 1 2 CR ; 3 m has been read: handleCtrl(CR), then
\* handleCSI(["12", "3"], "", 'm').
C24_Witness ==
    /\ sent = <<ESC, 91, 49, 50, CR, 59, 51, 109>>
    /\ Quiet
    /\ history = <<EvCtrl(CR), EvCSI(<<<<49, 50>>, <<51>>>>, <<>>, 109)>>

\* S is ESC [, ESC ] or ESC P and bytes of the sequence, CAN or SUB among
\* them, the final byte or the BEL last if there is one.
IsInterrupted(S) ==
    /\ Len(S) >= 3
    /\ S[1] = ESC
    /\ S[2] \in {91, 93, 80}
    /\ \A j \in 3..Len(S) : S[j] \in 32..126 \/ S[j] = BEL \/ terminatingCtrlCode(S[j])
    /\ \E j \in 3..Len(S) : terminatingCtrlCode(S[j])

\* The round of Continue that reads CAN or SUB delivers its handleCtrl,
\* returns to Run and leaves the state and the collected bytes as they are.
CanSubStep ==
    (/\ pc = "Continue"
     /\ buf # <<>>
     /\ terminatingCtrlCode(Head(buf))
     /\ buf' = Tail(buf)) =>
        /\ history' = Append(history, EvCtrl(Head(buf)))
        /\ pc' = "Run"
        /\ err' = ""
        /\ state' = state
        /\ partialParams' = partialParams
        /\ partialParam' = partialParam
        /\ partialIntermediates' = partialIntermediates

RECURSIVE OscPieces(_, _)
\* The events of the bytes w of an OSC string, cur being the bytes collected
\* since the string was last entered: CAN or SUB dispatches what is collected
\* (if anything), then its handleCtrl, and the string starts again; BEL
\* dispatches what is collected.
OscPieces(w, cur) ==
    IF w = <<>> THEN <<>>
    ELSE IF terminatingCtrlCode(Head(w))
    THEN (IF cur # <<>> THEN <<EvOSC(SplitParams(cur, <<>>, <<>>))>> ELSE <<>>)
         \o <<EvCtrl(Head(w))>> \o OscPieces(Tail(w), <<>>)
    ELSE IF Head(w) = BEL
    THEN <<EvOSC(SplitParams(cur, <<>>, <<>>))>>
    ELSE OscPieces(Tail(w), Append(cur, Head(w)))

====
